---------------------------- MODULE Spec2Model ----------------------------
(***************************************************************************)
(* A model of the J1939 stack of pbert519/j1939: the frame codec, the      *)
(* per control function address-claim state machine, the address monitor,  *)
(* the transport packager (BAM, RTS/CTS), the fast-packet coder and the    *)
(* stack dispatcher.  Every call of the public interface is one atomic     *)
(* action (the stack is single-threaded); a Rust panic stops the stack and *)
(* is recorded in the variable fault.                                      *)
(***************************************************************************)
EXTENDS Integers, Sequences, FiniteSets, TLC

VARIABLES
    now,              \* the clock read through TimerDriver::now (ms)
    cf,               \* Stack.cf: the registered control functions, in order
    address_monitor,  \* Stack.address_monitor.cf: the pairs <<sa, name>>
    received_frames,  \* Stack.received_frames
    accept_all_da,    \* Stack.accept_all_da
    transport,        \* Stack.transport: packager and fast-packet state
    can_in,           \* history: the frames the CAN driver held at the latest process call
    can_out,          \* the CAN frames transmitted by the most recent call
    fault,            \* "none", or the panic that stopped the stack
    offers,           \* history: the handle_new_frame calls of the most recent call
    call,             \* history: the most recent call, its arguments and result
    inputs,           \* history: the number of bus frames and application calls so far
    ticks,            \* history: the number of times the clock has advanced
    foreign_claims,   \* history: the addresses claimed by frames from the bus
    peer,             \* a second stack (the other end of a round trip)
    sent              \* history: the frame submitted for a round trip

vars == <<now, cf, address_monitor, received_frames, accept_all_da, transport,
          can_in, can_out, fault, offers, call, inputs, ticks, foreign_claims,
          peer, sent>>

---------------------------------------------------------------------------
(* Program constants *)

QueueCapacity == 20
RequestTimeout == 1500
VetoTimeout == 250
ADDRESS_GLOBAL == 255
ADDRESS_NULL == 254
PGN_TP_CM == 60416
PGN_TP_DT == 60160
PGN_ETP_CM == 51200
PGN_ETP_DT == 50944
PGN_ADDRESSCLAIM == 60928
PGN_REQUEST == 59904
CTRL_BAM == 32
CTRL_CONN_ABORT == 255
CTRL_END_OF_MSG_ACK == 19
CTRL_CTS == 17
CTRL_RTS == 16
MaxExtendedId == 536870911

\* Option::None for an Option<u8>
None == -1

\* Option::None where Some holds a struct
NoFrame == [absent |-> TRUE]

---------------------------------------------------------------------------
(* Integer and byte-sequence helpers *)

Min(a, b) == IF a < b THEN a ELSE b

Pow2(n) == 2 ^ n

\* a >> n and the low n bits of a
Shr(a, n) == a \div Pow2(n)
LowBits(a, n) == a % Pow2(n)

RECURSIVE BitOr(_, _)
BitOr(a, b) ==
    IF a = 0 THEN b
    ELSE IF b = 0 THEN a
    ELSE (IF a % 2 = 1 \/ b % 2 = 1 THEN 1 ELSE 0) + 2 * BitOr(a \div 2, b \div 2)

\* s[from..to) with 0-based indices, as a Rust slice; callers check the range
Slice(s, from, to) == SubSeq(s, from + 1, to)

\* [0xFF; n]
Filled(n) == [i \in 1..n |-> 255]

\* dst[at..at+len(src)].copy_from_slice(src), 0-based
CopyInto(dst, at, src) ==
    [i \in 1..Len(dst) |->
        IF i > at /\ i <= at + Len(src) THEN src[i - at] ELSE dst[i]]

\* u64::from_le_bytes(a) compared with u64::from_le_bytes(b): -1, 0 or 1
RECURSIVE CmpLeBytes(_, _, _)
CmpLeBytes(a, b, i) ==
    IF i = 0 THEN 0
    ELSE IF a[i] < b[i] THEN -1
    ELSE IF a[i] > b[i] THEN 1
    ELSE CmpLeBytes(a, b, i - 1)

\* a queue that never drops an element
ForcePush_Unbounded(q, x) == Append(q, x)

\* ArrayQueue::force_push: a full queue drops its oldest element
ForcePush(q, x) ==
    IF Len(q) >= QueueCapacity THEN Append(Tail(q), x) ELSE Append(q, x)

---------------------------------------------------------------------------
(* frame.rs *)

PgnIsBroadcast(pgn) == (Shr(pgn, 8) % 256) > 240

Header(pgn, priority, sa, da) ==
    [pgn |-> pgn, priority |-> priority, source_address |-> sa,
     destination_address |-> da]

Frame(header, data) == [header |-> header, data |-> data]

\* impl From<u32> for Header
HeaderFromId(id) ==
    IF (Shr(id, 16) % 256) >= 240
    THEN Header(LowBits(Shr(id, 8), 18), Shr(id, 26) % 8, id % 256, None)
    ELSE Header((Shr(id, 16) % 1024) * 256,
                Shr(id, 26) % 8, id % 256, Shr(id, 8) % 256)

\* impl From<Header> for u32
HeaderToId(h) ==
    LET id1 == BitOr(h.source_address, h.pgn * 256)
        id2 == IF h.destination_address # None
               THEN BitOr(id1, h.destination_address * 256) ELSE id1
    IN  BitOr(id2, h.priority * Pow2(26))

\* Frame::can: the CAN frame of a J1939 frame (ExtendedId::new fails above 29 bits)
CanFrame(id, data) == [ext |-> TRUE, id |-> id, data |-> data]
FrameCanOk(f) == HeaderToId(f.header) <= MaxExtendedId
FrameCan(f) == CanFrame(HeaderToId(f.header), f.data)

UpdateSourceAddress(f, address) ==
    [f EXCEPT !.header.source_address = address]

\* Request::new(pgn, sa, da).into(): 3 little-endian bytes of the requested PGN
RequestFrame(pgn, sa, da) ==
    Frame(Header(PGN_REQUEST, 3, sa, da),
          <<pgn % 256, Shr(pgn, 8) % 256, Shr(pgn, 16) % 256>>)

\* TryFrom<Frame> for Request: copy_from_slice panics unless data has 3 bytes
RequestParseOk(f) == Len(f.data) = 3
RequestedPgn(f) == f.data[1] + 256 * f.data[2] + 65536 * f.data[3]

---------------------------------------------------------------------------
(* name.rs: a NAME is kept as its 8 little-endian bytes, the payload of an *)
(* address claim; bit 63 (the top bit of the last byte) is address_capable *)

NameAddressCapable(name) == name[8] >= 128

\* name_raw.cmp(&self.name.into())
NameCmp(a, b) == CmpLeBytes(a, b, 8)

---------------------------------------------------------------------------
(* control_function.rs *)

\* ControlFunction::new; preferred, claimed and vetoed are history fields:
\* the preferred address, the addresses this CF sent a claim from, and the
\* addresses it lost to a lower NAME while waiting for a veto
NewControlFunction(name, preferred_address) ==
    [name |-> name,
     send_queue |-> <<>>,
     receive_queue |-> <<>>,
     address_state |-> "Preferred",
     ts |-> 0,
     address |-> preferred_address,
     address_configurable |-> NameAddressCapable(name),
     preferred |-> preferred_address,
     claimed |-> {},
     vetoed |-> {}]

IsOnline(c) == IF c.address_state = "AddressClaimed" THEN c.address ELSE None

SetState(c, st, t) == [c EXCEPT !.address_state = st, !.ts = t]

\* a CF that never sends an address claim
SendAddressclaim_Silent(c) == c

SendAddressclaim(c) ==
    [c EXCEPT !.send_queue = ForcePush(c.send_queue,
                  Frame(Header(PGN_ADDRESSCLAIM, 6, c.address, ADDRESS_GLOBAL), c.name)),
              !.claimed = c.claimed \cup {c.address},
              !.vetoed = c.vetoed \ {c.address}]

\* a CF that gives up without telling the bus
SendCannotclaim_Silent(c) == c

SendCannotclaim(c) ==
    [c EXCEPT !.send_queue = ForcePush(c.send_queue,
                  Frame(Header(PGN_ADDRESSCLAIM, 6, ADDRESS_NULL, ADDRESS_GLOBAL), c.name))]

\* a send_frame that does not look at the address state
CfSendFrame_AnyState(c, frame) ==
    [cf |-> [c EXCEPT !.send_queue =
                 ForcePush(c.send_queue, UpdateSourceAddress(frame, c.address))],
     ret |-> TRUE]

\* ControlFunction::send_frame: the CF after the call and the returned bool
CfSendFrame(c, frame) ==
    IF c.address_state = "AddressClaimed"
    THEN [cf |-> [c EXCEPT !.send_queue =
                      ForcePush(c.send_queue, UpdateSourceAddress(frame, c.address))],
          ret |-> TRUE]
    ELSE [cf |-> c, ret |-> FALSE]

\* a bump that never goes back to 128
BumpAddress_Next(c) == c.address + 1

\* the address lost to a lower NAME: the next one of 128..247
BumpAddress(c) ==
    IF c.address < 128 \/ c.address >= 247 THEN 128 ELSE c.address + 1

\* handle_addressclaim: frame.data().try_into().unwrap() needs 8 bytes, and
\* an equal NAME on our address is the panic "Same Name on Bus"
HandleAddressclaimFault(c, frame) ==
    IF Len(frame.data) # 8 THEN "panic: address claim payload"
    ELSE IF /\ c.address_state \in {"AddressClaimed", "WaitForVeto"}
            /\ frame.header.source_address = c.address
            /\ NameCmp(frame.data, c.name) = 0
         THEN "panic: Same Name on Bus"
    ELSE "none"

\* a conflict handling that keeps quiet when it wins
ConflictOutcome_Quiet(c, frame, t) ==
    IF NameCmp(frame.data, c.name) < 0
    THEN IF c.address_configurable
         THEN SendAddressclaim(
                  SetState([c EXCEPT !.address = BumpAddress(c)], "WaitForVeto", t))
         ELSE SendCannotclaim(SetState(c, "CannotClaim", 0))
    ELSE c

\* a conflict handling that defends the address against every NAME
ConflictOutcome_Defend(c, frame, t) == SendAddressclaim(c)

\* the match of handle_addressclaim on an address claim from our own address
ConflictOutcome(c, frame, t) ==
    IF NameCmp(frame.data, c.name) < 0
    THEN IF c.address_configurable
         THEN SendAddressclaim(
                  SetState([c EXCEPT !.address = BumpAddress(c)], "WaitForVeto", t))
         ELSE SendCannotclaim(SetState(c, "CannotClaim", 0))
    ELSE SendAddressclaim(c)

\* history: the address a CF in WaitForVeto is contested on by a lower NAME
RecordVeto(c, frame, after) ==
    IF c.address_state = "WaitForVeto" /\ NameCmp(frame.data, c.name) < 0
    THEN [after EXCEPT !.vetoed = after.vetoed \cup {c.address}]
    ELSE after

HandleAddressclaim(c, frame, t) ==
    IF /\ c.address_state \in {"AddressClaimed", "WaitForVeto"}
       /\ frame.header.source_address = c.address
    THEN RecordVeto(c, frame, ConflictOutcome(c, frame, t))
    ELSE c

\* a targeting that does not require the address to be claimed
CfTargeted_AnyState(c, frame) ==
    LET da == frame.header.destination_address
    IN  da = None \/ da = ADDRESS_GLOBAL \/ c.address = da

\* the guard of handle_new_frame: does the frame target this CF?
CfTargeted(c, frame) ==
    LET da == frame.header.destination_address
    IN  \/ da = None
        \/ da = ADDRESS_GLOBAL
        \/ (c.address_state = "AddressClaimed" /\ c.address = da)

CfHandleNewFrameFault(c, frame) ==
    IF frame.header.destination_address = None \/ ~CfTargeted(c, frame) THEN "none"
    ELSE IF frame.header.pgn = PGN_ADDRESSCLAIM THEN HandleAddressclaimFault(c, frame)
    ELSE IF frame.header.pgn = PGN_REQUEST /\ ~RequestParseOk(frame)
         THEN "panic: request payload"
    ELSE "none"

CfHandleNewFrame(c, frame, t) ==
    IF frame.header.destination_address # None
    THEN IF CfTargeted(c, frame)
         THEN IF frame.header.pgn = PGN_ADDRESSCLAIM
              THEN HandleAddressclaim(c, frame, t)
              ELSE IF frame.header.pgn = PGN_REQUEST
                      /\ RequestedPgn(frame) = PGN_ADDRESSCLAIM
              THEN IF c.address_state \in {"AddressClaimed", "WaitForVeto"}
                   THEN SendAddressclaim(c)
                   ELSE IF c.address_state = "CannotClaim"
                   THEN SendCannotclaim(c)
                   ELSE c
              ELSE [c EXCEPT !.receive_queue = ForcePush(c.receive_queue, frame)]
         ELSE c
    ELSE [c EXCEPT !.receive_queue = ForcePush(c.receive_queue, frame)]

\* a search that takes the highest free address below 147
NextAddressLoop_Highest(keys, next, overflow_checks, wrapped) ==
    LET free == {a \in next..146 : a \notin keys}
    IN  IF free = {} THEN [kind |-> "found", address |-> 147]
        ELSE [kind |-> "found", address |-> CHOOSE x \in free : \A y \in free : y <= x]

\* the search loop of process (Requested), by its result: the loop stops at
\* the first address from next upwards that is below 147 and not a key.
\* When there is none it runs up to 255, where next_address (a u8) panics
\* on the increment with overflow checks and wraps to 0 without; the loop
\* then goes on from 0, and never ends when every address below 147 is a key
NextAddressLoop(keys, next, overflow_checks, wrapped) ==
    LET up == {a \in next..146 : a \notin keys}
        low == {a \in 0..146 : a \notin keys}
    IN  IF up # {}
        THEN [kind |-> "found", address |-> CHOOSE x \in up : \A y \in up : x <= y]
        ELSE IF overflow_checks THEN [kind |-> "overflow", address |-> 255]
        ELSE IF wrapped \/ low = {} THEN [kind |-> "hang", address |-> 255]
        ELSE [kind |-> "found", address |-> CHOOSE x \in low : \A y \in low : x <= y]

MonitorKeys(monitor) == {e[1] : e \in monitor}

CfProcessFault(c, monitor, t, overflow_checks) ==
    IF /\ c.address_state = "Requested"
       /\ RequestTimeout < t - c.ts
       /\ c.address \in MonitorKeys(monitor)
    THEN LET r == NextAddressLoop(MonitorKeys(monitor), 127, overflow_checks, FALSE)
         IN  IF r.kind = "overflow" THEN "panic: attempt to add with overflow"
             ELSE IF r.kind = "hang" THEN "hang: address search"
             ELSE "none"
    ELSE "none"

\* a CF that starts over after it could not claim an address
CfProcessOther_Retry(c, t) ==
    IF c.address_state = "CannotClaim" /\ t > RequestTimeout
    THEN [c EXCEPT !.address_state = "Preferred"]
    ELSE c

\* process in AddressClaimed and CannotClaim: nothing to do
CfProcessOther(c, t) == c

\* ControlFunction::process
CfProcess(c, monitor, t, overflow_checks) ==
    IF c.address_state = "Preferred"
    THEN IF c.address_configurable
         THEN SetState([c EXCEPT !.send_queue = ForcePush(c.send_queue,
                            RequestFrame(PGN_ADDRESSCLAIM, ADDRESS_NULL, ADDRESS_GLOBAL))],
                       "Requested", t)
         ELSE SetState(SendAddressclaim(c), "WaitForVeto", t)
    ELSE IF c.address_state = "Requested"
    THEN IF RequestTimeout < t - c.ts
         THEN IF c.address \in MonitorKeys(monitor)
              THEN LET r == NextAddressLoop(MonitorKeys(monitor), 127,
                                            overflow_checks, FALSE)
                   IN  IF r.address >= 147
                       THEN SendCannotclaim(SetState(c, "CannotClaim", 0))
                       ELSE SetState(SendAddressclaim([c EXCEPT !.address = r.address]),
                                     "WaitForVeto", t)
              ELSE SetState(SendAddressclaim(c), "WaitForVeto", t)
         ELSE c
    ELSE IF c.address_state = "WaitForVeto"
    THEN IF VetoTimeout < t - c.ts
         THEN SetState(c, "AddressClaimed", 0)
         ELSE c
    ELSE CfProcessOther(c, t)

---------------------------------------------------------------------------
(* address.rs *)

\* AddressMonitor::handle_frame; the map is the set of its <<sa, name>> pairs.
\* The loop keeps the last key whose value is the name, and a BTreeMap
\* iterates in key order.
MonitorHandleFrameFault(frame) ==
    IF frame.header.pgn = PGN_ADDRESSCLAIM /\ Len(frame.data) # 8
    THEN "panic: address claim payload"
    ELSE IF frame.header.pgn = PGN_REQUEST /\ ~RequestParseOk(frame)
    THEN "panic: Could not serialize Request"
    ELSE "none"

\* a monitor that keeps the entry a NAME had under its former address
MonitorHandleFrame_Keep(monitor, frame) ==
    IF frame.header.pgn = PGN_ADDRESSCLAIM
    THEN {e \in monitor : e[1] # frame.header.source_address}
             \cup {<<frame.header.source_address, frame.data>>}
    ELSE IF frame.header.pgn = PGN_REQUEST
    THEN IF RequestedPgn(frame) = PGN_ADDRESSCLAIM THEN {} ELSE monitor
    ELSE monitor

MonitorHandleFrame(monitor, frame) ==
    IF frame.header.pgn = PGN_ADDRESSCLAIM
    THEN LET sa == frame.header.source_address
             same == {e \in monitor : e[2] = frame.data}
             old_sa == IF same = {} THEN None
                       ELSE CHOOSE k \in {e[1] : e \in same} :
                                \A k2 \in {e[1] : e \in same} : k2 <= k
             removed == {e \in monitor : e[1] # old_sa}
         IN  {e \in removed : e[1] # sa} \cup {<<sa, frame.data>>}
    ELSE IF frame.header.pgn = PGN_REQUEST
    THEN IF RequestedPgn(frame) = PGN_ADDRESSCLAIM THEN {} ELSE monitor
    ELSE monitor

---------------------------------------------------------------------------
(* transport/tp_frames.rs *)

PgnBytes(pgn) == <<pgn % 256, Shr(pgn, 8) % 256, Shr(pgn, 16) % 256>>

Tpdt(remote_address, local_address, sequence_number, data) ==
    [remote_address |-> remote_address, local_address |-> local_address,
     sequence_number |-> sequence_number, data |-> data]

\* impl From<TPDT> for Frame
TpdtToFrame(tpdt) ==
    Frame(Header(PGN_TP_DT, 7, tpdt.local_address, tpdt.remote_address),
          <<tpdt.sequence_number>> \o tpdt.data)

\* TPDT::from_frame reads data[0] and data[1..8]
TpdtParseOk(data) == Len(data) >= 8
TpdtFromFrame(header, data) ==
    Tpdt(header.source_address, header.destination_address, data[1],
         Slice(data, 1, 8))

Tpcm(kind, a, b, c, pgn, remote_address, local_address) ==
    [kind |-> kind, a |-> a, b |-> b, c |-> c, pgn |-> pgn,
     remote_address |-> remote_address, local_address |-> local_address]

\* the five variants; a, b, c are the variant's fields in declaration order
Rts(message_size, packet_count, max_packets_per_cts, pgn, remote, local) ==
    Tpcm("Rts", message_size, packet_count, max_packets_per_cts, pgn, remote, local)
Cts(expected_packets, next_packet_number, pgn, remote, local) ==
    Tpcm("Cts", expected_packets, next_packet_number, 0, pgn, remote, local)
EndOfMsg(message_size, packet_count, pgn, remote, local) ==
    Tpcm("EndOfMsg", message_size, packet_count, 0, pgn, remote, local)
Abort(abort_reason, pgn, remote, local) ==
    Tpcm("Abort", abort_reason, 0, 0, pgn, remote, local)
Bam(message_size, packet_count, pgn, remote, local) ==
    Tpcm("Bam", message_size, packet_count, 0, pgn, remote, local)

AlreadyConnected == 1
UnexpectedTransfer == 6
AbortOther == 250
UnknownPgn == 16777215

\* from_u8: unknown abort codes decode to Other
AbortReasonFromU8(n) == IF n \in 0..9 \/ n = 250 THEN n ELSE AbortOther

\* impl From<TPCM> for Frame: sa = local_address, da = remote_address
TpcmToFrame(m) ==
    LET data ==
          IF m.kind = "Rts"
          THEN <<CTRL_RTS, m.a % 256, Shr(m.a, 8) % 256, m.b, m.c>>
          ELSE IF m.kind = "Cts"
          THEN <<CTRL_CTS, m.a, m.b, 255, 255>>
          ELSE IF m.kind = "EndOfMsg"
          THEN <<CTRL_END_OF_MSG_ACK, m.a % 256, Shr(m.a, 8) % 256, m.b, 255>>
          ELSE IF m.kind = "Abort"
          THEN <<CTRL_CONN_ABORT, m.a, 255, 255, 255>>
          ELSE <<CTRL_BAM, m.a % 256, Shr(m.a, 8) % 256, m.b, 255>>
    IN  Frame(Header(PGN_TP_CM, 7, m.local_address, m.remote_address),
              data \o PgnBytes(m.pgn))

\* TPCM::from_frame reads data[0..8]; an unknown control byte panics
TpcmParseFault(header, data) ==
    IF Len(data) < 8 THEN "panic: index out of bounds"
    ELSE IF \/ (header.destination_address = ADDRESS_GLOBAL /\ data[1] = CTRL_BAM)
            \/ data[1] \in {CTRL_RTS, CTRL_CTS, CTRL_END_OF_MSG_ACK, CTRL_CONN_ABORT}
         THEN "none"
    ELSE "panic: TPCM Message with invalid control byte"

TpcmFromFrame(header, data) ==
    LET data_pgn == data[6] + 256 * data[7] + 65536 * data[8]
        size == data[2] + 256 * data[3]
        remote == header.source_address
        local == header.destination_address
    IN  IF header.destination_address = ADDRESS_GLOBAL /\ data[1] = CTRL_BAM
        THEN Bam(size, data[4], data_pgn, remote, local)
        ELSE IF data[1] = CTRL_RTS
        THEN Rts(size, data[4], data[5], data_pgn, remote, local)
        ELSE IF data[1] = CTRL_CTS
        THEN Cts(data[2], data[3], data_pgn, remote, local)
        ELSE IF data[1] = CTRL_END_OF_MSG_ACK
        THEN EndOfMsg(size, data[4], data_pgn, remote, local)
        ELSE Abort(AbortReasonFromU8(data[2]), data_pgn, remote, local)

---------------------------------------------------------------------------
(* transport/transport_packager.rs *)

\* BTreeMap helpers: a map is a function on its key set
EmptyMap == [k \in {} |-> 0]
MapInsert(m, k, v) == [x \in DOMAIN m \cup {k} |-> IF x = k THEN v ELSE m[x]]
MapRemove(m, k) == [x \in DOMAIN m \ {k} |-> m[x]]

\* u8 arithmetic: the wrapped value, and whether the operation overflows
U8(x) == (x + 256) % 256
U8Overflows(x) == x < 0 \/ x > 255

\* can_driver.transmit(&Frame::from(m).can())
TpcmCan(m) == FrameCan(TpcmToFrame(m))
TpdtCan(t) == FrameCan(TpdtToFrame(t))

\* the outcome of a transport call: the new transport state, the CAN frames
\* handed to can_driver.transmit, the returned frame, and the panic
Outcome(tr, out, result, f) ==
    [tr |-> tr, out |-> out, result |-> result, fault |-> f]

\* TransportManager::new: the packager's and the fast-packet coder's fields
NewTransportManager(pgns) ==
    [in_broadcast |-> EmptyMap, out_broadcast |-> NoFrame,
     in_p2p |-> EmptyMap, out_p2p |-> EmptyMap,
     pgns |-> pgns, receiver |-> EmptyMap, transmitter |-> EmptyMap,
     last_used_sequence |-> EmptyMap]

\* Vec::with_capacity(message_size): the capacity is taken to be exact
BroadcastReceiver(message_size, pgn) ==
    [data |-> <<>>, capacity |-> message_size, pgn |-> pgn, priority |-> 0,
     last_packet_index |-> 0]

P2PReceiver(message_size, pgn, max_packets_per_cts) ==
    [data |-> <<>>, capacity |-> message_size, pgn |-> pgn, priority |-> 0,
     max_packets_per_cts |-> max_packets_per_cts,
     last_packet_index |-> 0, last_requested_index |-> 0]

\* a receiver that lets a second RTS restart the session
DuplicateRts_Restart(tr, m) ==
    Outcome([tr EXCEPT !.in_p2p[<<m.remote_address, m.local_address>>] =
                 P2PReceiver(m.a, m.pgn, m.c)],
            <<TpcmCan(Cts(m.c, 1, m.pgn, m.remote_address, m.local_address))>>,
            NoFrame, "none")

\* process_tpcm (Rts) when the entry for (remote, local) is occupied
DuplicateRts(tr, m) ==
    Outcome(tr,
            <<TpcmCan(Abort(AlreadyConnected, m.pgn, m.remote_address,
                                m.local_address))>>,
            NoFrame, "none")

\* TransportPackager::process_tpcm
ProcessTpcm(tr, m, overflow_checks) ==
    IF m.kind = "Rts"
    THEN LET key == <<m.remote_address, m.local_address>>
         IN  IF key \notin DOMAIN tr.in_p2p
             THEN Outcome([tr EXCEPT !.in_p2p =
                              MapInsert(tr.in_p2p, key, P2PReceiver(m.a, m.pgn, m.c))],
                          <<TpcmCan(Cts(m.c, 1, m.pgn, m.remote_address,
                                            m.local_address))>>,
                          NoFrame, "none")
             ELSE DuplicateRts(tr, m)
    ELSE IF m.kind = "Cts"
    THEN LET key == <<m.local_address, m.remote_address>>
             last == m.b - 1
             till == U8(last) + m.a
         IN  IF key \in DOMAIN tr.out_p2p
             THEN IF overflow_checks /\ (U8Overflows(last) \/ U8Overflows(till))
                  THEN Outcome(tr, <<>>, NoFrame, "panic: attempt to subtract or add with overflow")
                  ELSE Outcome([tr EXCEPT !.out_p2p[key].last_packet_index = U8(last),
                                          !.out_p2p[key].send_till_index = U8(till)],
                               <<>>, NoFrame, "none")
             ELSE Outcome(tr, <<>>, NoFrame, "none")
    ELSE IF m.kind = "EndOfMsg"
    THEN Outcome([tr EXCEPT !.out_p2p =
                     MapRemove(tr.out_p2p, <<m.remote_address, m.local_address>>)],
                 <<>>, NoFrame, "none")
    ELSE IF m.kind = "Abort"
    THEN LET kin == <<m.local_address, m.remote_address>>
             kout == <<m.remote_address, m.local_address>>
             in1 == IF kin \in DOMAIN tr.in_p2p /\ tr.in_p2p[kin].pgn = m.pgn
                    THEN MapRemove(tr.in_p2p, kin) ELSE tr.in_p2p
             out1 == IF kout \in DOMAIN tr.out_p2p
                        /\ tr.out_p2p[kout].pdu.header.pgn = m.pgn
                     THEN MapRemove(tr.out_p2p, kout) ELSE tr.out_p2p
         IN  Outcome([tr EXCEPT !.in_p2p = in1, !.out_p2p = out1], <<>>, NoFrame, "none")
    ELSE \* Bam: entry(remote_address).or_insert
         IF m.remote_address \in DOMAIN tr.in_broadcast
         THEN Outcome(tr, <<>>, NoFrame, "none")
         ELSE Outcome([tr EXCEPT !.in_broadcast =
                          MapInsert(tr.in_broadcast, m.remote_address,
                                    BroadcastReceiver(m.a, m.pgn))],
                      <<>>, NoFrame, "none")

\* the last-packet test of process_tpdt
IsLastPacket(missing_bytes) == missing_bytes <= 8

\* the priority of a reassembled frame
ReassembledPriority(entry) == entry.priority

\* TransportPackager::process_tpdt; tpdt.data is a [u8; 7], so the slice
\* tpdt.data[0..missing_bytes] panics when missing_bytes is 8
ProcessTpdt(tr, tpdt, overflow_checks) ==
    LET bkey == tpdt.remote_address
        pkey == <<tpdt.remote_address, tpdt.local_address>>
    IN
    IF tpdt.local_address = ADDRESS_GLOBAL
    THEN IF bkey \in DOMAIN tr.in_broadcast
         THEN LET rec == tr.in_broadcast[bkey]
                  missing_bytes == rec.capacity - Len(rec.data)
              IN  IF overflow_checks /\ rec.last_packet_index = 255
                  THEN Outcome(tr, <<>>, NoFrame, "panic: attempt to add with overflow")
                  ELSE IF U8(rec.last_packet_index + 1) = tpdt.sequence_number
                  THEN IF IsLastPacket(missing_bytes)
                       THEN IF missing_bytes > 7
                            THEN Outcome(tr, <<>>, NoFrame,
                                         "panic: range end index 8 out of range for slice of length 7")
                            ELSE Outcome(
                                   [tr EXCEPT !.in_broadcast = MapRemove(tr.in_broadcast, bkey)],
                                   <<>>,
                                   Frame(Header(rec.pgn, ReassembledPriority(rec),
                                                tpdt.remote_address, tpdt.local_address),
                                         rec.data \o Slice(tpdt.data, 0, missing_bytes)),
                                   "none")
                       ELSE Outcome(
                              [tr EXCEPT !.in_broadcast[bkey].data = rec.data \o tpdt.data,
                                         !.in_broadcast[bkey].last_packet_index =
                                              U8(rec.last_packet_index + 1)],
                              <<>>, NoFrame, "none")
                  ELSE Outcome([tr EXCEPT !.in_broadcast = MapRemove(tr.in_broadcast, bkey)],
                               <<>>, NoFrame, "none")
         ELSE Outcome(tr, <<>>, NoFrame, "none")
    ELSE IF pkey \in DOMAIN tr.in_p2p
    THEN LET rec == tr.in_p2p[pkey]
             missing_bytes == rec.capacity - Len(rec.data)
             last == U8(rec.last_packet_index + 1)
         IN  IF overflow_checks /\ rec.last_packet_index = 255
             THEN Outcome(tr, <<>>, NoFrame, "panic: attempt to add with overflow")
             ELSE IF U8(rec.last_packet_index + 1) = tpdt.sequence_number
             THEN IF IsLastPacket(missing_bytes)
                  THEN IF missing_bytes > 7
                       THEN Outcome(tr, <<>>, NoFrame,
                                    "panic: range end index 8 out of range for slice of length 7")
                       ELSE LET data == rec.data \o Slice(tpdt.data, 0, missing_bytes)
                            IN  Outcome(
                                  [tr EXCEPT !.in_p2p = MapRemove(tr.in_p2p, pkey)],
                                  <<TpcmCan(EndOfMsg(Len(data) % 65536, last, rec.pgn,
                                                         tpdt.remote_address,
                                                         tpdt.local_address))>>,
                                  Frame(Header(rec.pgn, ReassembledPriority(rec),
                                               tpdt.remote_address, tpdt.local_address),
                                        data),
                                  "none")
                  ELSE LET appended == [tr EXCEPT !.in_p2p[pkey].data = rec.data \o tpdt.data,
                                                  !.in_p2p[pkey].last_packet_index = last]
                           requested == rec.last_requested_index + rec.max_packets_per_cts
                       IN  IF overflow_checks /\ U8Overflows(requested)
                           THEN Outcome(appended, <<>>, NoFrame,
                                        "panic: attempt to add with overflow")
                           ELSE IF U8(requested) = last
                           THEN IF overflow_checks /\ last = 255
                                THEN Outcome(appended, <<>>, NoFrame,
                                             "panic: attempt to add with overflow")
                                ELSE Outcome(
                                       [appended EXCEPT
                                           !.in_p2p[pkey].last_requested_index = U8(requested)],
                                       <<TpcmCan(Cts(rec.max_packets_per_cts, U8(last + 1),
                                                         rec.pgn, tpdt.remote_address,
                                                         tpdt.local_address))>>,
                                       NoFrame, "none")
                           ELSE Outcome(appended, <<>>, NoFrame, "none")
             ELSE Outcome([tr EXCEPT !.in_broadcast =
                              MapRemove(tr.in_broadcast, tpdt.remote_address)],
                          <<TpcmCan(Abort(UnexpectedTransfer, rec.pgn,
                                              tpdt.remote_address, tpdt.local_address))>>,
                          NoFrame, "none")
    ELSE Outcome(tr,
                 <<TpcmCan(Abort(UnexpectedTransfer, UnknownPgn,
                                     tpdt.remote_address, tpdt.local_address))>>,
                 NoFrame, "none")

\* packets_to_send of new_out_transfer
PacketsToSend(len) == ((len + 7) \div 8) % 256

\* TransportPackager::new_out_transfer
NewOutTransfer(tr, pdu) ==
    LET bytes_to_send == Len(pdu.data) % 65536
        packets_to_send == PacketsToSend(Len(pdu.data))
        h == pdu.header
    IN  IF PgnIsBroadcast(h.pgn) \/ h.destination_address = ADDRESS_GLOBAL
        THEN Outcome([tr EXCEPT !.out_broadcast =
                         [pdu |-> pdu, last_packet_index |-> 0,
                          packet_count |-> packets_to_send]],
                     <<TpcmCan(Bam(bytes_to_send, packets_to_send, h.pgn,
                                       ADDRESS_GLOBAL, h.source_address))>>,
                     NoFrame, "none")
        ELSE IF h.destination_address = None
        THEN Outcome(tr, <<>>, NoFrame, "panic: unwrap on None")
        ELSE Outcome([tr EXCEPT !.out_p2p =
                         MapInsert(tr.out_p2p, <<h.source_address, h.destination_address>>,
                                   [pdu |-> pdu, last_packet_index |-> 0,
                                    send_till_index |-> 0])],
                     <<TpcmCan(Rts(bytes_to_send, packets_to_send, 1, h.pgn,
                                       h.destination_address, h.source_address))>>,
                     NoFrame, "none")

\* the data packet of a sender whose last_packet_index is idx: 7 bytes of the
\* payload from idx * 7, padded with 0xFF.  start > len panics (stop - start)
PacketDataOk(pdu, idx) == idx * 7 <= Len(pdu.data)
PacketData(pdu, idx) ==
    LET start == idx * 7
        stop == Min(start + 7, Len(pdu.data))
    IN  CopyInto(Filled(7), 0, Slice(pdu.data, start, stop))

\* the broadcast half of process_out_transfers
ProcessOutBroadcast(tr, overflow_checks) ==
    IF tr.out_broadcast = NoFrame THEN Outcome(tr, <<>>, NoFrame, "none")
    ELSE LET sender == tr.out_broadcast
             idx == sender.last_packet_index
         IN  IF ~PacketDataOk(sender.pdu, idx)
             THEN Outcome(tr, <<>>, NoFrame, "panic: attempt to subtract with overflow")
             ELSE IF overflow_checks /\ idx = 255
             THEN Outcome(tr, <<>>, NoFrame, "panic: attempt to add with overflow")
             ELSE Outcome(
                    [tr EXCEPT !.out_broadcast =
                        IF U8(idx + 1) >= sender.packet_count THEN NoFrame
                        ELSE [sender EXCEPT !.last_packet_index = U8(idx + 1)]],
                    <<TpdtCan(Tpdt(ADDRESS_GLOBAL, sender.pdu.header.source_address,
                                       U8(idx + 1), PacketData(sender.pdu, idx)))>>,
                    NoFrame, "none")

\* a sender that does not wait for a CTS
ProcessOutSender_Unpaced(acc, key, overflow_checks) ==
    LET sender == acc.tr.out_p2p[key]
        idx == sender.last_packet_index
    IN  IF acc.fault # "none" \/ ~PacketDataOk(sender.pdu, idx) THEN acc
        ELSE Outcome(
               [acc.tr EXCEPT !.out_p2p[key].last_packet_index = idx + 1],
               Append(acc.out,
                      TpdtCan(Tpdt(sender.pdu.header.destination_address,
                                       sender.pdu.header.source_address,
                                       idx + 1, PacketData(sender.pdu, idx)))),
               NoFrame, "none")

\* one sender of the peer-to-peer loop of process_out_transfers
ProcessOutSender(acc, key, overflow_checks) ==
    LET sender == acc.tr.out_p2p[key]
        idx == sender.last_packet_index
    IN  IF acc.fault # "none" \/ ~(idx < sender.send_till_index) THEN acc
        ELSE IF ~PacketDataOk(sender.pdu, idx)
        THEN [acc EXCEPT !.fault = "panic: attempt to subtract with overflow"]
        ELSE Outcome(
               [acc.tr EXCEPT !.out_p2p[key].last_packet_index = idx + 1],
               Append(acc.out,
                      TpdtCan(Tpdt(sender.pdu.header.destination_address,
                                       sender.pdu.header.source_address,
                                       idx + 1, PacketData(sender.pdu, idx)))),
               NoFrame, "none")

\* the keys of a BTreeMap keyed by (u8, u8), in iteration order
PairOrder(k) == k[1] * 256 + k[2]
RECURSIVE SortedPairs(_)
SortedPairs(keys) ==
    IF keys = {} THEN <<>>
    ELSE LET k == CHOOSE x \in keys : \A y \in keys : PairOrder(x) <= PairOrder(y)
         IN  <<k>> \o SortedPairs(keys \ {k})

RECURSIVE ProcessOutSenders(_, _, _)
ProcessOutSenders(acc, keys, overflow_checks) ==
    IF keys = <<>> THEN acc
    ELSE ProcessOutSenders(ProcessOutSender(acc, Head(keys), overflow_checks),
                           Tail(keys), overflow_checks)

\* TransportPackager::process_out_transfers
ProcessOutTransfers(tr, overflow_checks) ==
    LET b == ProcessOutBroadcast(tr, overflow_checks)
    IN  IF b.fault # "none" THEN b
        ELSE ProcessOutSenders(b, SortedPairs(DOMAIN b.tr.out_p2p), overflow_checks)

---------------------------------------------------------------------------
(* transport/fast_packet.rs *)

IsFastpacket(tr, pgn) == pgn \in tr.pgns

\* copy_till of handle_frame: 8.min((expected_bytes - data.len()) + 1) in
\* usize; a negative difference panics with overflow checks and wraps
\* without (and -1 + 1 wraps on to 0)
CopyTill(expected_bytes, len) ==
    LET d == expected_bytes - len
    IN  IF d >= 0 THEN Min(8, d + 1) ELSE IF d = -1 THEN 0 ELSE 8

\* FastPacketCoder::handle_frame
FpHandleFrame(tr, header, data, overflow_checks) ==
    IF Len(data) < 1 THEN Outcome(tr, <<>>, NoFrame, "panic: index out of bounds")
    ELSE
    LET identifier == data[1]
        sequence == Shr(identifier, 5)
        item == identifier % 32
        pgn == header.pgn
    IN  IF item = 0
        THEN IF Len(data) < 2 THEN Outcome(tr, <<>>, NoFrame, "panic: index out of bounds")
             ELSE IF pgn \notin DOMAIN tr.receiver
             THEN Outcome([tr EXCEPT !.receiver =
                              MapInsert(tr.receiver, pgn,
                                        [expected_bytes |-> data[2], sequence |-> sequence,
                                         data |-> Slice(data, 2, Len(data))])],
                          <<>>, NoFrame, "none")
             ELSE Outcome(tr, <<>>, NoFrame, "none")
        ELSE IF pgn \in DOMAIN tr.receiver /\ tr.receiver[pgn].sequence = sequence
        THEN LET rec == tr.receiver[pgn]
                 copy_till == CopyTill(rec.expected_bytes, Len(rec.data))
                 got == rec.data \o Slice(data, 1, copy_till)
             IN  IF overflow_checks /\ rec.expected_bytes < Len(rec.data)
                 THEN Outcome(tr, <<>>, NoFrame, "panic: attempt to subtract with overflow")
                 ELSE IF copy_till < 1 \/ copy_till > Len(data)
                 THEN Outcome(tr, <<>>, NoFrame, "panic: slice index out of range")
                 ELSE IF Len(got) >= rec.expected_bytes
                 THEN Outcome([tr EXCEPT !.receiver = MapRemove(tr.receiver, pgn)],
                              <<>>, Frame(header, got), "none")
                 ELSE Outcome([tr EXCEPT !.receiver[pgn].data = got], <<>>, NoFrame, "none")
        ELSE Outcome(tr, <<>>, NoFrame, "none")

\* one transmitter of FastPacketCoder::process_out_transfers
FpProcessTransmitter(acc, pgn) ==
    LET t == acc.tr.transmitter[pgn]
        len == Len(t.frame.data)
        bytes_send_min == 6 + t.item * 7
        bytes_send_max == Min(len, bytes_send_min + 7)
        item == U8(t.item + 1)
        data == CopyInto(CopyInto(Filled(8), 0, <<((t.sequence * 32) % 256) + (item % 32)>>),
                         1, Slice(t.frame.data, bytes_send_min, bytes_send_max))
    IN  IF acc.fault # "none" THEN acc
        ELSE IF bytes_send_max < bytes_send_min
        THEN [acc EXCEPT !.fault = "panic: attempt to subtract with overflow"]
        ELSE IF ~FrameCanOk(t.frame)
        THEN [acc EXCEPT !.fault = "panic: unwrap on None"]
        ELSE Outcome(
               [acc.tr EXCEPT !.transmitter[pgn].item = item],
               Append(acc.out, CanFrame(HeaderToId(t.frame.header), data)),
               NoFrame, "none")

\* the finished transmitters are removed after the loop
FpFinished(tr, pgn) ==
    Min(Len(tr.transmitter[pgn].frame.data), 6 + (tr.transmitter[pgn].item - 1) * 7 + 7)
        >= Len(tr.transmitter[pgn].frame.data)

RECURSIVE SortedInts(_)
SortedInts(keys) ==
    IF keys = {} THEN <<>>
    ELSE LET k == CHOOSE x \in keys : \A y \in keys : x <= y
         IN  <<k>> \o SortedInts(keys \ {k})

RECURSIVE FpProcessTransmitters(_, _)
FpProcessTransmitters(acc, keys) ==
    IF keys = <<>> THEN acc
    ELSE FpProcessTransmitters(FpProcessTransmitter(acc, Head(keys)), Tail(keys))

\* FastPacketCoder::process_out_transfers, continuing the outcome acc
FpProcessOutTransfers(acc) ==
    LET r == FpProcessTransmitters(acc, SortedInts(DOMAIN acc.tr.transmitter))
        finished == {pgn \in DOMAIN r.tr.transmitter : FpFinished(r.tr, pgn)}
    IN  IF r.fault # "none" THEN r
        ELSE [r EXCEPT !.tr.transmitter =
                 [pgn \in DOMAIN r.tr.transmitter \ finished |-> r.tr.transmitter[pgn]]]

\* FastPacketCoder::send_frame
FpSendFrame(tr, pdu, overflow_checks) ==
    LET pgn == pdu.header.pgn
        seqs == IF pgn \in DOMAIN tr.last_used_sequence THEN tr.last_used_sequence
                ELSE MapInsert(tr.last_used_sequence, pgn, 0)
        sequence == seqs[pgn]
        tr1 == [tr EXCEPT !.last_used_sequence = seqs]
    IN  IF pgn \in DOMAIN tr.transmitter THEN Outcome(tr1, <<>>, NoFrame, "none")
        ELSE IF Len(pdu.data) < 6
        THEN Outcome(tr1, <<>>, NoFrame, "panic: range end index 6 out of range")
        ELSE IF ~FrameCanOk(pdu)
        THEN Outcome(tr1, <<>>, NoFrame, "panic: unwrap on None")
        ELSE LET data == <<(sequence * 32) % 256, Len(pdu.data) % 256>>
                             \o Slice(pdu.data, 0, 6)
                 sending == [tr1 EXCEPT !.transmitter =
                                MapInsert(tr.transmitter, pgn,
                                          [frame |-> pdu, item |-> 0, sequence |-> sequence])]
             IN  IF overflow_checks /\ sequence = 255
                 THEN Outcome(sending, <<CanFrame(HeaderToId(pdu.header), data)>>, NoFrame,
                              "panic: attempt to add with overflow")
                 ELSE Outcome([sending EXCEPT !.last_used_sequence[pgn] = U8(sequence + 1)],
                              <<CanFrame(HeaderToId(pdu.header), data)>>, NoFrame, "none")

---------------------------------------------------------------------------
(* transport/mod.rs *)

IsTpFrame(tr, pgn) ==
    \/ pgn \in {PGN_ETP_CM, PGN_ETP_DT, PGN_TP_CM, PGN_TP_DT}
    \/ IsFastpacket(tr, pgn)

\* TransportManager::handle_frame
TransportHandleFrame(tr, header, data, overflow_checks) ==
    IF header.pgn = PGN_TP_CM
    THEN IF TpcmParseFault(header, data) # "none"
         THEN Outcome(tr, <<>>, NoFrame, TpcmParseFault(header, data))
         ELSE ProcessTpcm(tr, TpcmFromFrame(header, data), overflow_checks)
    ELSE IF header.pgn = PGN_TP_DT
    THEN IF ~TpdtParseOk(data)
         THEN Outcome(tr, <<>>, NoFrame, "panic: index out of bounds")
         ELSE ProcessTpdt(tr, TpdtFromFrame(header, data), overflow_checks)
    ELSE IF header.pgn \in {PGN_ETP_CM, PGN_ETP_DT}
    THEN Outcome(tr, <<>>, NoFrame, "panic: not yet implemented")
    ELSE IF IsFastpacket(tr, header.pgn)
    THEN FpHandleFrame(tr, header, data, overflow_checks)
    ELSE Outcome(tr, <<>>, NoFrame, "panic: Invalid PGN handled by Transportmanager")

\* TransportManager::process
TransportProcess(tr, overflow_checks) ==
    LET p == ProcessOutTransfers(tr, overflow_checks)
    IN  IF p.fault # "none" THEN p ELSE FpProcessOutTransfers(p)

\* TransportManager::send_frame
TransportSendFrame(tr, frame, overflow_checks) ==
    IF IsFastpacket(tr, frame.header.pgn) THEN FpSendFrame(tr, frame, overflow_checks)
    ELSE IF Len(frame.data) > 1785
    THEN Outcome(tr, <<>>, NoFrame, "panic: not yet implemented: ETP not yet supported")
    ELSE NewOutTransfer(tr, frame)

---------------------------------------------------------------------------
(* stack.rs: the operators work on a record of the Stack's fields, with    *)
(* the frames transmitted so far (can_out), the panic (fault) and the      *)
(* history of handle_new_frame calls (offers)                              *)

\* Stack::new / Stack::new_with_nema2000
NewStack(pgns) ==
    [cf |-> <<>>, address_monitor |-> {}, received_frames |-> <<>>,
     accept_all_da |-> FALSE, transport |-> NewTransportManager(pgns),
     can_out |-> <<>>, fault |-> "none", offers |-> <<>>]

\* fold the outcome of a transport call into the stack
WithOutcome(s, o) ==
    [s EXCEPT !.transport = o.tr, !.can_out = s.can_out \o o.out, !.fault = o.fault]

\* Stack::register_control_function
RegisterControlFunction(s, preferred_address, name) ==
    [s EXCEPT !.cf = Append(s.cf, NewControlFunction(name, preferred_address))]

\* Stack::send_frame
StackSendFrame(s, frame, overflow_checks) ==
    IF Len(frame.data) > 8
    THEN WithOutcome(s, TransportSendFrame(s.transport, frame, overflow_checks))
    ELSE IF ~FrameCanOk(frame) THEN [s EXCEPT !.fault = "panic: unwrap on None"]
    ELSE [s EXCEPT !.can_out = Append(s.can_out, FrameCan(frame))]

\* a destination check that lets every frame pass
CheckDestination_Open(s, destination_address) == TRUE

\* Stack::check_destination
CheckDestination(s, destination_address) ==
    IF destination_address # None
    THEN \/ s.accept_all_da
         \/ \E i \in 1..Len(s.cf) : IsOnline(s.cf[i]) = destination_address
         \/ destination_address = ADDRESS_GLOBAL
    ELSE TRUE

\* an admission test that ignores accept_all_da
StackAdmits_Broadcast(s, frame) ==
    LET da == frame.header.destination_address
    IN  da = None \/ da = ADDRESS_GLOBAL

\* the admission test of handle_new_frame_stack
StackAdmits(s, frame) ==
    LET da == frame.header.destination_address
    IN  da = None \/ da = ADDRESS_GLOBAL \/ s.accept_all_da

\* Stack::handle_new_frame_stack
HandleNewFrameStack(s, frame) ==
    LET address_related == frame.header.pgn \in {PGN_ADDRESSCLAIM, PGN_REQUEST}
    IN  IF address_related /\ MonitorHandleFrameFault(frame) # "none"
        THEN [s EXCEPT !.fault = MonitorHandleFrameFault(frame)]
        ELSE LET s1 == IF address_related
                       THEN [s EXCEPT !.address_monitor =
                                MonitorHandleFrame(s.address_monitor, frame)]
                       ELSE s
             IN  IF StackAdmits(s1, frame)
                 THEN [s1 EXCEPT !.received_frames = ForcePush(s1.received_frames, frame)]
                 ELSE s1

\* one call self.cf[to].handle_new_frame(&frame); from is the CF whose send
\* queue the frame was taken from, 0 for a frame from the bus
Offer(s, from, to, frame, t) ==
    IF s.fault # "none" THEN s
    ELSE IF CfHandleNewFrameFault(s.cf[to], frame) # "none"
    THEN [s EXCEPT !.fault = CfHandleNewFrameFault(s.cf[to], frame),
                   !.offers = Append(s.offers, [from |-> from, to |-> to, frame |-> frame,
                                                pre |-> s.cf[to], post |-> s.cf[to]])]
    ELSE LET post == CfHandleNewFrame(s.cf[to], frame, t)
         IN  [s EXCEPT !.cf[to] = post,
                       !.offers = Append(s.offers, [from |-> from, to |-> to, frame |-> frame,
                                                    pre |-> s.cf[to], post |-> post])]

RECURSIVE OfferAll(_, _, _, _)
OfferAll(s, i, frame, t) ==
    IF i > Len(s.cf) THEN s ELSE OfferAll(Offer(s, 0, i, frame, t), i + 1, frame, t)

\* Stack::handle_new_frame
HandleNewFrame(s, frame, t) ==
    LET s1 == OfferAll(s, 1, frame, t)
    IN  IF s1.fault # "none" THEN s1 ELSE HandleNewFrameStack(s1, frame)

\* Stack::push_can_frame
PushCanFrame(s, can_frame, t, overflow_checks) ==
    IF ~can_frame.ext THEN s
    ELSE LET header == HeaderFromId(can_frame.id)
         IN  IF ~CheckDestination(s, header.destination_address) THEN s
             ELSE IF IsTpFrame(s.transport, header.pgn)
             THEN LET o == TransportHandleFrame(s.transport, header, can_frame.data,
                                                overflow_checks)
                      s1 == WithOutcome(s, o)
                  IN  IF o.fault = "none" /\ o.result # NoFrame
                      THEN HandleNewFrame(s1, o.result, t)
                      ELSE s1
             ELSE HandleNewFrame(s, Frame(header, can_frame.data), t)

\* while let Ok(frame) = self.can_driver.receive()
RECURSIVE DrainCan(_, _, _, _)
DrainCan(s, frames, t, overflow_checks) ==
    IF frames = <<>> \/ s.fault # "none" THEN s
    ELSE DrainCan(PushCanFrame(s, Head(frames), t, overflow_checks), Tail(frames),
                  t, overflow_checks)

\* the CF that process_control_functions hands a frame of CF cf_index to
\* when the loop is at receiver_index
LoopbackTarget(cf_index, receiver_index) == cf_index

RECURSIVE Loopback(_, _, _, _, _)
Loopback(s, cf_index, receiver_index, frame, t) ==
    IF receiver_index > Len(s.cf) \/ s.fault # "none" THEN s
    ELSE IF cf_index = receiver_index
    THEN Loopback(s, cf_index, receiver_index + 1, frame, t)
    ELSE Loopback(Offer(s, cf_index, LoopbackTarget(cf_index, receiver_index), frame, t),
                  cf_index, receiver_index + 1, frame, t)

\* while let Some(frame) = self.cf[cf_index].send_queue.pop()
RECURSIVE DrainSendQueue(_, _, _, _)
DrainSendQueue(s, cf_index, t, overflow_checks) ==
    IF s.fault # "none" \/ s.cf[cf_index].send_queue = <<>> THEN s
    ELSE LET frame == Head(s.cf[cf_index].send_queue)
             s1 == [s EXCEPT !.cf[cf_index].send_queue = Tail(s.cf[cf_index].send_queue)]
             s2 == StackSendFrame(s1, frame, overflow_checks)
             s3 == Loopback(s2, cf_index, 1, frame, t)
             s4 == IF s3.fault # "none" THEN s3 ELSE HandleNewFrameStack(s3, frame)
         IN  DrainSendQueue(s4, cf_index, t, overflow_checks)

\* Stack::process_control_functions
RECURSIVE ProcessControlFunctions(_, _, _, _)
ProcessControlFunctions(s, cf_index, t, overflow_checks) ==
    IF cf_index > Len(s.cf) \/ s.fault # "none" THEN s
    ELSE LET f == CfProcessFault(s.cf[cf_index], s.address_monitor, t, overflow_checks)
         IN  IF f # "none" THEN [s EXCEPT !.fault = f]
             ELSE ProcessControlFunctions(
                      DrainSendQueue(
                          [s EXCEPT !.cf[cf_index] =
                              CfProcess(s.cf[cf_index], s.address_monitor, t, overflow_checks)],
                          cf_index, t, overflow_checks),
                      cf_index + 1, t, overflow_checks)

\* Stack::process, with the frames the driver holds
StackProcess(s, frames, t, overflow_checks) ==
    LET s1 == DrainCan(s, frames, t, overflow_checks)
        s2 == ProcessControlFunctions(s1, 1, t, overflow_checks)
    IN  IF s2.fault # "none" THEN s2
        ELSE WithOutcome(s2, TransportProcess(s2.transport, overflow_checks))

---------------------------------------------------------------------------
(* Bounds and the inputs of the environment *)

MaxCF == 2
MaxCanIn == 1
MaxInputs == 2
MaxTicks == 2

PreferredAddress == 133
OtherAddress == 32
RemoteAddress == 128
LocalAddresses == {PreferredAddress, PreferredAddress + 1}

NameOf(b) == <<0, 0, 0, 0, 0, 255, 2, b>>
LocalNames == {NameOf(160), NameOf(32)}
RemoteNames == {NameOf(1), NameOf(100), NameOf(180)}

TickSteps == {VetoTimeout, VetoTimeout + 1, RequestTimeout + 1}

\* the CAN frame of an address claim for address sa by name
ClaimCan(sa, name) ==
    FrameCan(Frame(Header(PGN_ADDRESSCLAIM, 6, sa, ADDRESS_GLOBAL), name))

ClaimFrames == {ClaimCan(PreferredAddress, n) : n \in RemoteNames}

\* a request for address claim, a broadcast frame, peer-to-peer frames to a
\* local and to a foreign address, an RTS to a foreign address, a frame with
\* a standard (11 bit) identifier
DataFrames ==
    {FrameCan(RequestFrame(PGN_ADDRESSCLAIM, RemoteAddress, ADDRESS_GLOBAL)),
     FrameCan(Frame(Header(65202, 0, 1, None), <<1, 2>>)),
     FrameCan(Frame(Header(56320, 0, RemoteAddress, PreferredAddress), <<3>>)),
     FrameCan(Frame(Header(56320, 0, RemoteAddress, OtherAddress), <<4>>)),
     TpcmCan(Rts(9, 2, 1, 56320, OtherAddress, RemoteAddress)),
     [ext |-> FALSE, id |-> 1, data |-> <<5>>]}

IngressFrames == ClaimFrames \cup DataFrames

\* what the CAN driver can hold when process is called
IngressSeqs == UNION {[1..k -> IngressFrames] : k \in 0..MaxCanIn}

\* the frames an application sends through a CF handle or the stack
CfFrames == {Frame(Header(56320, 5, 0, OtherAddress), <<6>>)}
StackFrames == {Frame(Header(65202, 2, 33, None), <<7>>)}

---------------------------------------------------------------------------
(* The state machine *)

\* the Stack as a record, and back
Self ==
    [cf |-> cf, address_monitor |-> address_monitor,
     received_frames |-> received_frames, accept_all_da |-> accept_all_da,
     transport |-> transport, can_out |-> <<>>, fault |-> "none", offers |-> <<>>]

Becomes(s) ==
    /\ cf' = s.cf
    /\ address_monitor' = s.address_monitor
    /\ received_frames' = s.received_frames
    /\ accept_all_da' = s.accept_all_da
    /\ transport' = s.transport
    /\ can_out' = s.can_out
    /\ fault' = s.fault
    /\ offers' = s.offers

Call(op, cfi, arg, result) == [op |-> op, cf |-> cfi, arg |-> arg, ret |-> result]

NoCall == Call("new", 0, None, None)

Init ==
    /\ now = 0
    /\ cf = <<>>
    /\ address_monitor = {}
    /\ received_frames = <<>>
    /\ accept_all_da = FALSE
    /\ transport = NewTransportManager({})
    /\ can_in = <<>>
    /\ can_out = <<>>
    /\ fault = "none"
    /\ offers = <<>>
    /\ call = NoCall
    /\ inputs = 0
    /\ ticks = 0
    /\ foreign_claims = {}
    /\ peer = NoFrame
    /\ sent = NoFrame

\* stack.register_control_function(preferred_address, name); the application
\* registers its control functions before it starts calling process
Register(preferred_address, name) ==
    /\ fault = "none"
    /\ call.op \in {"new", "register"}
    /\ Len(cf) < MaxCF
    /\ cf = <<>> => preferred_address = PreferredAddress
    /\ \A i \in 1..Len(cf) : cf[i].name # name
    /\ Becomes(RegisterControlFunction(Self, preferred_address, name))
    /\ call' = Call("register", Len(cf) + 1, None, None)
    /\ UNCHANGED <<now, can_in, inputs, ticks, foreign_claims, peer, sent>>

\* time passes
Tick(d) ==
    /\ fault = "none"
    /\ ticks < MaxTicks
    /\ now' = now + d
    /\ ticks' = ticks + 1
    /\ call' = Call("tick", 0, None, None)
    /\ UNCHANGED <<cf, address_monitor, received_frames, accept_all_da, transport,
                   can_in, can_out, fault, offers, inputs, foreign_claims, peer, sent>>

\* the source addresses of the address claims among CAN frames
RECURSIVE ClaimedBy(_)
ClaimedBy(frames) ==
    IF frames = <<>> THEN {}
    ELSE LET f == Head(frames) IN
         (IF f.ext /\ HeaderFromId(f.id).pgn = PGN_ADDRESSCLAIM
          THEN {HeaderFromId(f.id).source_address} ELSE {})
         \cup ClaimedBy(Tail(frames))

\* stack.process(), with the frames the CAN driver has received since the
\* previous call
Process(frames) ==
    /\ fault = "none"
    /\ inputs + Len(frames) <= MaxInputs
    /\ inputs' = inputs + Len(frames)
    /\ foreign_claims' = foreign_claims \cup ClaimedBy(frames)
    /\ \E overflow_checks \in BOOLEAN :
           Becomes(StackProcess(Self, frames, now, overflow_checks))
    /\ can_in' = frames
    /\ call' = Call("process", 0, None, None)
    /\ UNCHANGED <<now, ticks, peer, sent>>

\* stack.control_function(&handle).send_frame(frame)
CfSend(i, frame) ==
    /\ fault = "none"
    /\ i \in 1..Len(cf)
    /\ inputs < MaxInputs
    /\ inputs' = inputs + 1
    /\ Becomes([Self EXCEPT !.cf[i] = CfSendFrame(cf[i], frame).cf])
    /\ call' = Call("cf.send_frame", i, frame, CfSendFrame(cf[i], frame).ret)
    /\ UNCHANGED <<now, can_in, ticks, foreign_claims, peer, sent>>

\* stack.control_function(&handle).get_frame()
CfGet(i) ==
    /\ fault = "none"
    /\ i \in 1..Len(cf)
    /\ cf[i].receive_queue # <<>>
    /\ Becomes([Self EXCEPT !.cf[i].receive_queue = Tail(cf[i].receive_queue)])
    /\ call' = Call("cf.get_frame", i, None, Head(cf[i].receive_queue))
    /\ UNCHANGED <<now, can_in, inputs, ticks, foreign_claims, peer, sent>>

\* stack.get_frame()
StackGet ==
    /\ fault = "none"
    /\ received_frames # <<>>
    /\ Becomes([Self EXCEPT !.received_frames = Tail(received_frames)])
    /\ call' = Call("get_frame", 0, None, Head(received_frames))
    /\ UNCHANGED <<now, can_in, inputs, ticks, foreign_claims, peer, sent>>

\* stack.send_frame(frame)
StackSend(frame) ==
    /\ fault = "none"
    /\ inputs < MaxInputs
    /\ inputs' = inputs + 1
    /\ \E overflow_checks \in BOOLEAN :
           Becomes(StackSendFrame(Self, frame, overflow_checks))
    /\ call' = Call("send_frame", 0, frame, None)
    /\ UNCHANGED <<now, can_in, ticks, foreign_claims, peer, sent>>

\* stack.set_accepted_all(accept_all)
SetAcceptedAll(accept_all) ==
    /\ fault = "none"
    /\ inputs < MaxInputs
    /\ inputs' = inputs + 1
    /\ Becomes([Self EXCEPT !.accept_all_da = accept_all])
    /\ call' = Call("set_accepted_all", 0, accept_all, None)
    /\ UNCHANGED <<now, can_in, ticks, foreign_claims, peer, sent>>

Next ==
    \/ \E a \in LocalAddresses, n \in LocalNames : Register(a, n)
    \/ \E d \in TickSteps : Tick(d)
    \/ \E frames \in IngressSeqs : Process(frames)
    \/ \E i \in 1..MaxCF, f \in CfFrames : CfSend(i, f)
    \/ \E i \in 1..MaxCF : CfGet(i)
    \/ StackGet
    \/ \E f \in StackFrames : StackSend(f)
    \/ \E b \in BOOLEAN : SetAcceptedAll(b)

Spec == Init /\ [][Next]_vars

---------------------------------------------------------------------------
(* Claims on the address state machine and the dispatch of frames *)

\* nobody else has claimed the preferred address of CF i: no frame from the
\* bus and no other local CF
Uncontested(i) ==
    /\ cf[i].preferred \notin foreign_claims
    /\ \A j \in 1..Len(cf) : j # i => cf[i].preferred \notin cf[j].claimed

Configurable(i) == i <= Len(cf) /\ cf[i].address_configurable

OnlineOnPreferred(i) == i <= Len(cf) /\ IsOnline(cf[i]) = cf[i].preferred

\* the timeout CF i is waiting for has not expired
Advanced(i) ==
    \/ cf[i].address_state = "Requested" /\ now - cf[i].ts <= RequestTimeout
    \/ /\ cf[i].address_state = "WaitForVeto"
       /\ now - cf[i].ts <= VetoTimeout
       /\ cf[i].address = cf[i].preferred
    \/ OnlineOnPreferred(i)

\* C1: after every call of process, an address-configurable CF whose
\* preferred address nobody else claims has made the step that was due: it
\* is past no expired timeout, hence online on its preferred address once
\* process has been called after each of the two timeouts
C1_ClaimLiveness ==
    \A i \in 1..Len(cf) :
        (Configurable(i) /\ Uncontested(i) /\ call.op = "process") =>
            /\ Advanced(i)
            /\ fault = "none" \/ OnlineOnPreferred(i)

C1_Witness ==
    \E i \in 1..Len(cf) :
        /\ Configurable(i) /\ Uncontested(i) /\ call.op = "process"
        /\ OnlineOnPreferred(i)
        /\ now > RequestTimeout + VetoTimeout

\* C2: a CF that met an address claim with a lower NAME while waiting for a
\* veto is on the contested address only in state CannotClaim, until it
\* sends a new claim for that address
C2_VetoSafety ==
    \A i \in 1..Len(cf) :
        cf[i].address \in cf[i].vetoed => cf[i].address_state = "CannotClaim"

C2_Witness ==
    \E i \in 1..Len(cf) :
        /\ cf[i].vetoed # {}
        /\ cf[i].address_configurable
        /\ cf[i].address_state = "AddressClaimed"

\* C3: a frame taken from the send queue of CF i is never offered to CF i,
\* and is offered once to each other CF
C3_Loopback ==
    \A k \in 1..Len(offers) :
        offers[k].from # 0 =>
            /\ offers[k].to # offers[k].from
            /\ \A m \in 1..Len(offers) :
                   (/\ offers[m].from = offers[k].from
                    /\ offers[m].to = offers[k].to
                    /\ offers[m].frame = offers[k].frame) => m = k

C3_Witness ==
    /\ Len(cf) = MaxCF
    /\ call.op = "process"
    /\ \E k \in 1..Len(offers) : offers[k].from # 0

\* C7: ControlFunction.send_frame returns true exactly in AddressClaimed and
\* then enqueues the frame with the CF's address as source address; in every
\* other state it returns false and the CF is unchanged
C7_SendFrame ==
    [][\A i \in 1..MaxCF : \A f \in CfFrames :
           CfSend(i, f) =>
               IF cf[i].address_state = "AddressClaimed"
               THEN /\ call'.ret = TRUE
                    /\ cf' = [cf EXCEPT ![i].send_queue = ForcePush(@,
                                 [f EXCEPT !.header.source_address = cf[i].address])]
               ELSE /\ call'.ret = FALSE
                    /\ cf' = cf]_vars

C7_Witness ==
    /\ call.op = "cf.send_frame"
    /\ call.ret = TRUE
    /\ cf[call.cf].send_queue # <<>>
    /\ cf[call.cf].send_queue[Len(cf[call.cf].send_queue)].header.source_address
           = cf[call.cf].address

\* the frames the address management of a CF consumes
AddressManaged(frame) ==
    \/ frame.header.pgn = PGN_ADDRESSCLAIM
    \/ frame.header.pgn = PGN_REQUEST /\ RequestedPgn(frame) = PGN_ADDRESSCLAIM

\* C8: handle_new_frame accepts a frame iff it has no DA, or DA 0xFF, or the
\* CF is AddressClaimed on the DA: an accepted frame is enqueued, or handled
\* by the address management; any other frame leaves the CF unchanged
C8_Targeting ==
    \A k \in 1..Len(offers) :
        LET o == offers[k]
            da == o.frame.header.destination_address
            accepted == \/ da = None
                        \/ da = 255
                        \/ (o.pre.address_state = "AddressClaimed" /\ da = o.pre.address)
        IN  CfHandleNewFrameFault(o.pre, o.frame) = "none" =>
                IF ~accepted THEN o.post = o.pre
                ELSE IF da # None /\ AddressManaged(o.frame)
                THEN o.post.receive_queue = o.pre.receive_queue
                ELSE o.post = [o.pre EXCEPT !.receive_queue = ForcePush(@, o.frame)]

C8_Witness ==
    \E k \in 1..Len(offers) :
        /\ offers[k].pre.address_state = "AddressClaimed"
        /\ offers[k].frame.header.destination_address = offers[k].pre.address
        /\ offers[k].post.receive_queue = Append(offers[k].pre.receive_queue, offers[k].frame)

\* the case of C9: the frame has a DA that is not 0xFF and not the address of
\* an online CF, and the stack does not accept all destinations
Filtered(can_frame) ==
    LET da == HeaderFromId(can_frame.id).destination_address
    IN  /\ can_frame.ext
        /\ da # None
        /\ da # 255
        /\ \A i \in 1..Len(cf) : ~(cf[i].address_state = "AddressClaimed" /\ cf[i].address = da)
        /\ ~accept_all_da

\* C9: receiving a filtered frame changes nothing: no CF, no monitor entry,
\* no transport session, no received frame, and nothing is transmitted
C9_IngressFilter ==
    \A f \in IngressFrames : \A overflow_checks \in BOOLEAN :
        Filtered(f) => PushCanFrame(Self, f, now, overflow_checks) = Self

C9_Witness ==
    /\ call.op = "process"
    /\ Len(can_in) = 1
    /\ Filtered(can_in[1])
    /\ HeaderFromId(can_in[1].id).destination_address = OtherAddress
    /\ \E i \in 1..Len(cf) : cf[i].address_state = "AddressClaimed"
    /\ can_out = <<>>
    /\ offers = <<>>

\* the frames the stack handles: the ones from the bus and the ones of the
\* local control functions
HandledFrames ==
    {Frame(HeaderFromId(f.id), f.data) : f \in {g \in IngressFrames : g.ext}}
    \cup {UpdateSourceAddress(f, PreferredAddress) : f \in CfFrames}

CfReceiveQueues(s) == [i \in 1..Len(s.cf) |-> s.cf[i].receive_queue]

---------------------------------------------------------------------------
(* RTS/CTS round trip: the transport of a sender (transport) against the   *)
(* transport of a receiver (peer).  can_out carries the frames from the    *)
(* sender to the receiver, can_in the frames back, and received_frames     *)
(* collects what the receiver's handle_frame returns                       *)

MaxPayloadLen == 16
MaxPriority == 7
SenderAddress == 144
ReceiverAddress == 155
PeerToPeerPgn == 56320

\* the payload of n bytes 1, 2, ..., n
Payload(n) == [k \in 1..n |-> k]

RtsFrames ==
    {Frame(Header(PeerToPeerPgn, p, SenderAddress, ReceiverAddress), Payload(n)) :
         p \in 0..MaxPriority, n \in 0..MaxPayloadLen}

InitRts ==
    /\ now = 0
    /\ cf = <<>>
    /\ address_monitor = {}
    /\ received_frames = <<>>
    /\ accept_all_da = FALSE
    /\ transport = NewTransportManager({})
    /\ can_in = <<>>
    /\ can_out = <<>>
    /\ fault = "none"
    /\ offers = <<>>
    /\ call = NoCall
    /\ inputs = 0
    /\ ticks = 0
    /\ foreign_claims = {}
    /\ peer = NewTransportManager({})
    /\ sent = NoFrame

\* the sender's packager.new_out_transfer(pdu)
RtsSubmit(pdu) ==
    /\ fault = "none"
    /\ sent = NoFrame
    /\ LET o == NewOutTransfer(transport, pdu)
       IN  /\ transport' = o.tr
           /\ can_out' = can_out \o o.out
           /\ fault' = o.fault
    /\ sent' = pdu
    /\ call' = Call("new_out_transfer", 0, None, None)
    /\ UNCHANGED <<now, cf, address_monitor, received_frames, accept_all_da, can_in,
                   offers, inputs, ticks, foreign_claims, peer>>

\* the receiver's transport.handle_frame on the next frame from the sender
RtsDeliver ==
    /\ fault = "none"
    /\ can_out # <<>>
    /\ \E overflow_checks \in BOOLEAN :
           LET f == Head(can_out)
               o == TransportHandleFrame(peer, HeaderFromId(f.id), f.data, overflow_checks)
           IN  /\ peer' = o.tr
               /\ can_in' = can_in \o o.out
               /\ received_frames' = IF o.result = NoFrame THEN received_frames
                                     ELSE Append(received_frames, o.result)
               /\ fault' = o.fault
    /\ can_out' = Tail(can_out)
    /\ call' = Call("receiver.handle_frame", 0, None, None)
    /\ UNCHANGED <<now, cf, address_monitor, accept_all_da, transport, offers, inputs,
                   ticks, foreign_claims, sent>>

\* the sender's transport.handle_frame on the next frame from the receiver
RtsReply ==
    /\ fault = "none"
    /\ can_in # <<>>
    /\ \E overflow_checks \in BOOLEAN :
           LET f == Head(can_in)
               o == TransportHandleFrame(transport, HeaderFromId(f.id), f.data,
                                         overflow_checks)
           IN  /\ transport' = o.tr
               /\ can_out' = can_out \o o.out
               /\ fault' = o.fault
    /\ can_in' = Tail(can_in)
    /\ call' = Call("sender.handle_frame", 0, None, None)
    /\ UNCHANGED <<now, cf, address_monitor, received_frames, accept_all_da, offers,
                   inputs, ticks, foreign_claims, peer, sent>>

\* the sender's transport.process
RtsProcess ==
    /\ fault = "none"
    /\ sent # NoFrame
    /\ \E overflow_checks \in BOOLEAN :
           LET o == TransportProcess(transport, overflow_checks)
           IN  /\ transport' = o.tr
               /\ can_out' = can_out \o o.out
               /\ fault' = o.fault
    /\ call' = Call("sender.process", 0, None, None)
    /\ UNCHANGED <<now, cf, address_monitor, received_frames, accept_all_da, can_in,
                   offers, inputs, ticks, foreign_claims, peer, sent>>

NextRts ==
    \/ \E pdu \in RtsFrames : RtsSubmit(pdu)
    \/ RtsDeliver
    \/ RtsReply
    \/ RtsProcess

SpecRts == InitRts /\ [][NextRts]_vars

\* nothing is in flight and the sender has no packet it may send
RtsQuiet ==
    /\ sent # NoFrame
    /\ can_in = <<>>
    /\ can_out = <<>>
    /\ \A k \in DOMAIN transport.out_p2p :
           transport.out_p2p[k].last_packet_index >= transport.out_p2p[k].send_till_index

\* C4: an RTS/CTS transfer of a payload S runs without a panic, delivers
\* nothing but S, and has delivered exactly one frame when it has come to rest
C4_RtsRoundTrip ==
    /\ fault = "none"
    /\ \A k \in 1..Len(received_frames) : received_frames[k].data = sent.data
    /\ Len(received_frames) <= 1
    /\ RtsQuiet => Len(received_frames) = 1

C4_Witness ==
    /\ RtsQuiet
    /\ Len(sent.data) > 8
    /\ received_frames = <<[sent EXCEPT !.header.priority = 0]>>

\* C5: the frame delivered at the end of an RTS/CTS transfer has the PGN and
\* the priority of the frame submitted
C5_RtsHeader ==
    \A k \in 1..Len(received_frames) :
        /\ received_frames[k].header.pgn = sent.header.pgn
        /\ received_frames[k].header.priority = sent.header.priority

C5_Witness ==
    /\ sent # NoFrame
    /\ received_frames # <<>>
    /\ sent.header.priority = MaxPriority
    /\ received_frames[1].header.pgn = sent.header.pgn

---------------------------------------------------------------------------
(* Fast-Packet round trip: a sending stack (the variables of the Stack)    *)
(* against a receiving stack (peer), both created by new_with_nema2000     *)
(* with the same PGN.  can_in carries the CAN frames from the sender to    *)
(* the receiver                                                            *)

MaxFastPacketLen == 16
FastPacketPgn == 129029
FastPacketSource == 28

FpFrames ==
    {Frame(Header(FastPacketPgn, p, FastPacketSource, None), Payload(n)) :
         p \in {3, 6}, n \in 0..MaxFastPacketLen}

InitFp ==
    /\ now = 0
    /\ cf = <<>>
    /\ address_monitor = {}
    /\ received_frames = <<>>
    /\ accept_all_da = FALSE
    /\ transport = NewTransportManager({FastPacketPgn})
    /\ can_in = <<>>
    /\ can_out = <<>>
    /\ fault = "none"
    /\ offers = <<>>
    /\ call = NoCall
    /\ inputs = 0
    /\ ticks = 0
    /\ foreign_claims = {}
    /\ peer = NewStack({FastPacketPgn})
    /\ sent = NoFrame

\* the sender's stack.send_frame(frame)
FpSubmit(frame) ==
    /\ fault = "none"
    /\ peer.fault = "none"
    /\ sent = NoFrame
    /\ \E overflow_checks \in BOOLEAN :
           LET s == StackSendFrame(Self, frame, overflow_checks)
           IN  Becomes(s) /\ can_in' = can_in \o s.can_out
    /\ sent' = frame
    /\ call' = Call("send_frame", 0, None, None)
    /\ UNCHANGED <<now, inputs, ticks, foreign_claims, peer>>

\* the sender's stack.process()
FpProcess ==
    /\ fault = "none"
    /\ peer.fault = "none"
    /\ sent # NoFrame
    /\ \E overflow_checks \in BOOLEAN :
           LET s == StackProcess(Self, <<>>, now, overflow_checks)
           IN  Becomes(s) /\ can_in' = can_in \o s.can_out
    /\ call' = Call("process", 0, None, None)
    /\ UNCHANGED <<now, inputs, ticks, foreign_claims, peer, sent>>

\* the receiver's stack.process() with the next frame from the sender
FpDeliver ==
    /\ fault = "none"
    /\ peer.fault = "none"
    /\ can_in # <<>>
    /\ \E overflow_checks \in BOOLEAN :
           peer' = StackProcess(peer, <<Head(can_in)>>, now, overflow_checks)
    /\ can_in' = Tail(can_in)
    /\ call' = Call("receiver.process", 0, None, None)
    /\ UNCHANGED <<now, cf, address_monitor, received_frames, accept_all_da, transport,
                   can_out, fault, offers, inputs, ticks, foreign_claims, sent>>

NextFp ==
    \/ \E frame \in FpFrames : FpSubmit(frame)
    \/ FpProcess
    \/ FpDeliver

SpecFp == InitFp /\ [][NextFp]_vars

\* every frame of the transfer has been sent and received
FpQuiet ==
    /\ sent # NoFrame
    /\ can_in = <<>>
    /\ transport.transmitter = EmptyMap

\* C6: a payload S sent on a Fast-Packet PGN crosses without a panic, the
\* receiving stack gets no frame with other data, and has exactly one frame
\* when every CAN frame of the transfer is received
C6_FastPacketRoundTrip ==
    /\ fault = "none"
    /\ peer.fault = "none"
    /\ \A k \in 1..Len(peer.received_frames) : peer.received_frames[k].data = sent.data
    /\ FpQuiet => Len(peer.received_frames) = 1

C6_Witness ==
    /\ FpQuiet
    /\ Len(sent.data) > 8
    /\ Len(peer.received_frames) = 1
    /\ peer.received_frames[1].data = sent.data

---------------------------------------------------------------------------
(* Queue overflow: one fixed-address CF on a stack; once the CF is online  *)
(* the application sends more frames through it than its send queue holds, *)
(* and the driver delivers, once, more broadcast frames in one process     *)
(* call than the receive queues hold.  The payload of a frame is its       *)
(* number: inputs numbers the frames sent, the batch is numbered from 1    *)

MaxPushes == 22

QueueFrame(n) == Frame(Header(65202, 2, 33, None), <<n>>)

QueueIngress(n) == [k \in 1..n |-> FrameCan(QueueFrame(k))]

QueueRegister ==
    /\ cf = <<>>
    /\ Register(PreferredAddress, NameOf(32))

QueueTick ==
    /\ now = 0
    /\ Tick(VetoTimeout + 1)

\* stack.process() with n broadcast frames waiting in the driver
QueueProcess(n) ==
    /\ fault = "none"
    /\ cf # <<>>
    /\ n > 0 => can_in = <<>>
    /\ \E overflow_checks \in BOOLEAN :
           Becomes(StackProcess(Self, QueueIngress(n), now, overflow_checks))
    /\ can_in' = can_in \o QueueIngress(n)
    /\ call' = Call("process", 0, n, None)
    /\ UNCHANGED <<now, inputs, ticks, foreign_claims, peer, sent>>

\* stack.control_function(&handle).send_frame(frame)
QueueSend ==
    /\ fault = "none"
    /\ cf # <<>>
    /\ cf[1].address_state = "AddressClaimed"
    /\ inputs < MaxPushes
    /\ inputs' = inputs + 1
    /\ Becomes([Self EXCEPT !.cf[1] = CfSendFrame(cf[1], QueueFrame(inputs + 1)).cf])
    /\ call' = Call("cf.send_frame", 1, inputs + 1,
                    CfSendFrame(cf[1], QueueFrame(inputs + 1)).ret)
    /\ UNCHANGED <<now, can_in, ticks, foreign_claims, peer, sent>>

NextQueue ==
    \/ QueueRegister
    \/ QueueTick
    \/ \E n \in {0, MaxPushes - 1} : QueueProcess(n)
    \/ QueueSend

SpecQueue == Init /\ [][NextQueue]_vars

\* the n newest elements of a sequence, in their order
Newest(q, n) == IF Len(q) <= n THEN q ELSE SubSeq(q, Len(q) - n + 1, Len(q))

\* the J1939 frames of CAN frames
Decoded(frames) == [k \in 1..Len(frames) |-> Frame(HeaderFromId(frames[k].id), frames[k].data)]

QueuesBounded ==
    /\ Len(received_frames) <= QueueCapacity
    /\ \A i \in 1..Len(cf) :
           /\ Len(cf[i].send_queue) <= QueueCapacity
           /\ Len(cf[i].receive_queue) <= QueueCapacity

\* C11: no queue ever holds more than 20 frames; a push into a queue keeps
\* the 20 newest frames in arrival order (the oldest are evicted), the call
\* that pushes reports no error
C11_BoundedQueues ==
    /\ []QueuesBounded
    /\ [][/\ QueueSend =>
              /\ call'.ret = TRUE
              /\ fault' = "none"
              /\ cf'[1].send_queue =
                     Newest(Append(cf[1].send_queue,
                                   UpdateSourceAddress(QueueFrame(inputs'), cf[1].address)),
                            QueueCapacity)
          /\ \A n \in {0, MaxPushes - 1} :
               QueueProcess(n) =>
                 /\ fault' = "none"
                 /\ cf'[1].receive_queue =
                        Newest(cf[1].receive_queue \o Decoded(QueueIngress(n)), QueueCapacity)
                 /\ received_frames' =
                        Newest(received_frames \o Decoded(QueueIngress(n))
                                   \o Decoded(can_out'), QueueCapacity)]_vars

\* every kind of queue has evicted frames: the CF's send queue was full
\* before the last send, both receive queues were passed more than they hold
C11_Witness ==
    /\ cf # <<>>
    /\ Len(cf[1].send_queue) = QueueCapacity
    /\ cf[1].send_queue[1].data # <<1>>
    /\ Len(cf[1].receive_queue) = QueueCapacity
    /\ cf[1].receive_queue[1].data # <<1>>
    /\ Len(received_frames) = QueueCapacity
    /\ call.op = "cf.send_frame"

---------------------------------------------------------------------------
(* Address management, claim by claim                                      *)

\* the CAN frame of the address claim CF c sends from its address
AddressClaimCan(c) ==
    FrameCan(Frame(Header(PGN_ADDRESSCLAIM, 6, c.address, ADDRESS_GLOBAL), c.name))

\* the CAN frame of the cannot-claim message of CF c
CannotClaimCan(c) ==
    FrameCan(Frame(Header(PGN_ADDRESSCLAIM, 6, ADDRESS_NULL, ADDRESS_GLOBAL), c.name))

\* how often a CAN frame occurs in a sequence of frames
Count(frames, f) == Cardinality({k \in 1..Len(frames) : frames[k] = f})

\* C12: in a process call a fixed-address CF in Preferred sends one address
\* claim from its preferred address and enters WaitForVeto(now); a CF in
\* WaitForVeto(t0) is not AddressClaimed after a process call with
\* now - t0 <= 250 ms, and is AddressClaimed after one with now - t0 > 250 ms
\* in which no claim for its address arrives
C12_VetoWait ==
    [][\A i \in 1..Len(cf) :
           call'.op = "process" =>
               /\ (~cf[i].address_configurable /\ cf[i].address_state = "Preferred") =>
                      /\ fault' = "none"
                      /\ cf'[i].address_state = "WaitForVeto"
                      /\ cf'[i].ts = now
                      /\ cf'[i].address = cf[i].preferred
                      /\ Count(can_out', AddressClaimCan(cf[i])) = 1
               /\ (cf[i].address_state = "WaitForVeto" /\ now - cf[i].ts <= VetoTimeout) =>
                      cf'[i].address_state # "AddressClaimed"
               /\ (/\ cf[i].address_state = "WaitForVeto"
                   /\ now - cf[i].ts > VetoTimeout
                   /\ cf[i].address \notin ClaimedBy(can_in')) =>
                      /\ fault' = "none"
                      /\ cf'[i].address_state = "AddressClaimed"
                      /\ cf'[i].address = cf[i].address]_vars

\* a fixed-address CF that waited for more than 250 ms is online
C12_Witness ==
    /\ call.op = "process"
    /\ \E i \in 1..Len(cf) :
           /\ ~cf[i].address_configurable
           /\ cf[i].address_state = "AddressClaimed"
           /\ cf[i].address = cf[i].preferred
           /\ now - cf[i].ts > VetoTimeout

\* CAN frame f is an address claim from address a with a NAME below name
LowerClaim(f, a, name) ==
    /\ f.ext
    /\ HeaderFromId(f.id).pgn = PGN_ADDRESSCLAIM
    /\ HeaderFromId(f.id).source_address = a
    /\ Len(f.data) = 8
    /\ NameCmp(f.data, name) = -1

\* C13: a fixed-address CF in WaitForVeto or AddressClaimed that receives an
\* address claim from its own address with a lower NAME is in CannotClaim
\* after the process call, and the call has transmitted its cannot-claim
\* frame (source address 0xFE, destination 0xFF, payload its NAME)
C13_FixedLoss ==
    [][\A i \in 1..Len(cf) :
           (/\ call'.op = "process"
            /\ ~cf[i].address_configurable
            /\ cf[i].address_state \in {"WaitForVeto", "AddressClaimed"}
            /\ \E k \in 1..Len(can_in') : LowerClaim(can_in'[k], cf[i].address, cf[i].name)) =>
               /\ fault' = "none"
               /\ cf'[i].address_state = "CannotClaim"
               /\ Count(can_out', CannotClaimCan(cf[i])) >= 1
               /\ HeaderFromId(CannotClaimCan(cf[i]).id) =
                      Header(PGN_ADDRESSCLAIM, 6, ADDRESS_NULL, ADDRESS_GLOBAL)]_vars

C13_Witness ==
    /\ call.op = "process"
    /\ \E i \in 1..Len(cf) :
           /\ ~cf[i].address_configurable
           /\ cf[i].address_state = "CannotClaim"
           /\ \E k \in 1..Len(can_in) : LowerClaim(can_in[k], cf[i].address, cf[i].name)
           /\ Count(can_out, CannotClaimCan(cf[i])) >= 1

\* requests for the address claim PGN, to all, to the preferred address and
\* to another address
RequestsForClaim ==
    {RequestFrame(PGN_ADDRESSCLAIM, RemoteAddress, da) :
         da \in {ADDRESS_GLOBAL, PreferredAddress, OtherAddress}}

\* what a CF answers to a request for address claim
ClaimAnswer(c) ==
    IF c.address_state \in {"AddressClaimed", "WaitForVeto"}
    THEN <<Frame(Header(PGN_ADDRESSCLAIM, 6, c.address, ADDRESS_GLOBAL), c.name)>>
    ELSE IF c.address_state = "CannotClaim"
    THEN <<Frame(Header(PGN_ADDRESSCLAIM, 6, ADDRESS_NULL, ADDRESS_GLOBAL), c.name)>>
    ELSE <<>>

\* C14: a CF that accepts a request for the address claim PGN queues its
\* address claim when AddressClaimed or WaitForVeto, its cannot-claim frame
\* when CannotClaim, nothing when Preferred or Requested, and keeps its
\* state, address and receive queue; the process call that delivers the
\* request transmits the answer
C14_RequestResponse ==
    /\ \A i \in 1..Len(cf) : \A r \in RequestsForClaim :
           (\/ r.header.destination_address = ADDRESS_GLOBAL
            \/ /\ cf[i].address_state = "AddressClaimed"
               /\ r.header.destination_address = cf[i].address) =>
               LET d == CfHandleNewFrame(cf[i], r, now) IN
               /\ d.address_state = cf[i].address_state
               /\ d.ts = cf[i].ts
               /\ d.address = cf[i].address
               /\ d.receive_queue = cf[i].receive_queue
               /\ d.send_queue = cf[i].send_queue \o ClaimAnswer(cf[i])
    /\ \A k \in 1..Len(offers) :
           (/\ call.op = "process"
            /\ offers[k].from = 0
            /\ offers[k].frame \in RequestsForClaim
            /\ fault = "none") =>
               \A m \in 1..Len(ClaimAnswer(offers[k].pre)) :
                   Count(can_out, FrameCan(ClaimAnswer(offers[k].pre)[m])) >= 1

\* a CF in CannotClaim has answered a request with its cannot-claim frame
C14_Witness ==
    /\ call.op = "process"
    /\ \E k \in 1..Len(offers) :
           /\ offers[k].from = 0
           /\ offers[k].frame \in RequestsForClaim
           /\ offers[k].pre.address_state = "CannotClaim"
           /\ can_out = <<CannotClaimCan(offers[k].pre)>>

\* C15: a CF in CannotClaim stays in CannotClaim in every step, whatever
\* frame it is handed and whenever process is called, and is_online() is None
C15_CannotClaimTerminal ==
    /\ [](\A i \in 1..Len(cf) :
            cf[i].address_state = "CannotClaim" =>
                /\ IsOnline(cf[i]) = None
                /\ \A d \in TickSteps \cup {0} : \A overflow_checks \in BOOLEAN :
                       /\ CfProcessFault(cf[i], address_monitor, now + d,
                                         overflow_checks) = "none"
                       /\ CfProcess(cf[i], address_monitor, now + d,
                                    overflow_checks).address_state = "CannotClaim"
                /\ \A f \in {g \in IngressFrames : g.ext} :
                       CfHandleNewFrame(cf[i], Frame(HeaderFromId(f.id), f.data),
                                        now).address_state = "CannotClaim")
    /\ [][\A i \in 1..Len(cf) :
              cf[i].address_state = "CannotClaim" =>
                  cf'[i].address_state = "CannotClaim"]_vars

\* a CF that was in CannotClaim has been through a process call that handed
\* it a frame
C15_Witness ==
    /\ call.op = "process"
    /\ \E k \in 1..Len(offers) :
           /\ offers[k].pre.address_state = "CannotClaim"
           /\ cf[offers[k].to].address_state = "CannotClaim"
           /\ IsOnline(cf[offers[k].to]) = None

\* C16: an address a CF holds that is not its preferred address lies in
\* 128..247
C16_AutoAddressRange ==
    \A i \in 1..Len(cf) :
        cf[i].address # cf[i].preferred => cf[i].address \in 128..247

\* a CF has moved to another address after it lost its preferred one
C16_Witness ==
    \E i \in 1..Len(cf) :
        /\ cf[i].address # cf[i].preferred
        /\ cf[i].address \in cf[i].claimed
        /\ cf[i].address \in 128..247

---------------------------------------------------------------------------
(* Ingress BAM: a remote sender announces a broadcast transfer to the      *)
(* receiver (peer) and feeds it the TP.DT packets in order.  sent is the   *)
(* frame the remote sender transfers, inputs the number of packets fed     *)

MaxBamLen == 30
BroadcastPgn == 65202

\* ceil(n / 7), the number of TP.DT packets of n bytes
PacketCount(n) == (n + 6) \div 7

\* the 7 data bytes of packet k of a payload, padded with 0xFF
Chunk(data, k) ==
    [j \in 1..7 |-> IF 7 * (k - 1) + j <= Len(data) THEN data[7 * (k - 1) + j] ELSE 255]

\* the receiver's transport.handle_frame on a CAN frame
BamHandle(f) ==
    \E overflow_checks \in BOOLEAN :
        LET o == TransportHandleFrame(peer, HeaderFromId(f.id), f.data, overflow_checks)
        IN  /\ peer' = o.tr
            /\ can_out' = can_out \o o.out
            /\ received_frames' = IF o.result = NoFrame THEN received_frames
                                  ELSE Append(received_frames, o.result)
            /\ fault' = o.fault

\* the BAM for n bytes of PGN pgn arrives
BamAnnounce(pgn, n) ==
    /\ fault = "none"
    /\ sent = NoFrame
    /\ BamHandle(TpcmCan(Bam(n, PacketCount(n), pgn, ADDRESS_GLOBAL, SenderAddress)))
    /\ sent' = Frame(Header(pgn, 0, SenderAddress, ADDRESS_GLOBAL), Payload(n))
    /\ call' = Call("receiver.handle_frame", 0, n, None)
    /\ UNCHANGED <<now, cf, address_monitor, accept_all_da, transport, can_in, offers,
                   inputs, ticks, foreign_claims>>

\* the next TP.DT packet arrives; one more than the transfer has is fed
BamFeed ==
    /\ fault = "none"
    /\ sent # NoFrame
    /\ inputs <= PacketCount(Len(sent.data))
    /\ BamHandle(TpdtCan(Tpdt(ADDRESS_GLOBAL, SenderAddress, inputs + 1,
                              Chunk(sent.data, inputs + 1))))
    /\ inputs' = inputs + 1
    /\ call' = Call("receiver.handle_frame", 0, inputs + 1, None)
    /\ UNCHANGED <<now, cf, address_monitor, accept_all_da, transport, can_in, offers,
                   ticks, foreign_claims, sent>>

NextBamRx ==
    \/ \E pgn \in {BroadcastPgn, PeerToPeerPgn}, n \in 9..MaxBamLen : BamAnnounce(pgn, n)
    \/ BamFeed

SpecBamRx == InitRts /\ [][NextBamRx]_vars

\* C17: after a BAM for n bytes of PGN p from S, the TP.DT packets 1, 2, ...
\* from S to 0xFF deliver nothing before the packets hold n bytes, and
\* then one frame {p, priority 0, S, 0xFF} with the first n bytes; the
\* session is open until then and closed afterwards; nothing panics
C17_BamReassembly ==
    /\ fault = "none"
    /\ sent # NoFrame =>
           /\ received_frames =
                  IF inputs * 7 >= Len(sent.data) THEN <<sent>> ELSE <<>>
           /\ SenderAddress \in DOMAIN peer.in_broadcast <=> inputs * 7 < Len(sent.data)
           /\ can_out = <<>>

\* a transfer of three packets has been delivered with the last packet
C17_Witness ==
    /\ sent # NoFrame
    /\ Len(sent.data) > 14
    /\ inputs = PacketCount(Len(sent.data))
    /\ received_frames = <<sent>>
    /\ SenderAddress \notin DOMAIN peer.in_broadcast

---------------------------------------------------------------------------
(* Egress BAM: the application sends one broadcast frame of more than 8    *)
(* bytes through Stack.send_frame and calls process.  sent is the frame,   *)
(* inputs the number of process calls since, can_out what the last call    *)
(* transmitted                                                             *)

BroadcastSource == 33

BamFrames ==
    {Frame(Header(BroadcastPgn, 0, BroadcastSource, None), Payload(n)) : n \in 9..MaxBamLen}
    \cup {Frame(Header(PeerToPeerPgn, 0, BroadcastSource, ADDRESS_GLOBAL), Payload(n)) :
              n \in 9..MaxBamLen}

\* stack.send_frame(frame)
BamSubmit(frame) ==
    /\ fault = "none"
    /\ sent = NoFrame
    /\ \E overflow_checks \in BOOLEAN :
           Becomes(StackSendFrame(Self, frame, overflow_checks))
    /\ sent' = frame
    /\ call' = Call("send_frame", 0, None, None)
    /\ UNCHANGED <<now, can_in, inputs, ticks, foreign_claims, peer>>

\* stack.process(); one call more than the transfer has packets is made
BamProcess ==
    /\ fault = "none"
    /\ sent # NoFrame
    /\ inputs <= PacketCount(Len(sent.data))
    /\ \E overflow_checks \in BOOLEAN :
           Becomes(StackProcess(Self, <<>>, now, overflow_checks))
    /\ inputs' = inputs + 1
    /\ call' = Call("process", 0, None, None)
    /\ UNCHANGED <<now, can_in, ticks, foreign_claims, peer, sent>>

NextBamTx ==
    \/ \E frame \in BamFrames : BamSubmit(frame)
    \/ BamProcess

SpecBamTx == Init /\ [][NextBamTx]_vars

\* CAN frame f is a BAM from source sa announcing size bytes of PGN pgn
IsBam(f, sa, size, pgn) ==
    /\ f.ext
    /\ HeaderFromId(f.id).pgn = PGN_TP_CM
    /\ HeaderFromId(f.id).source_address = sa
    /\ HeaderFromId(f.id).destination_address = ADDRESS_GLOBAL
    /\ Len(f.data) = 8
    /\ f.data[1] = CTRL_BAM
    /\ f.data[2] + 256 * f.data[3] = size
    /\ f.data[6] + 256 * f.data[7] + 65536 * f.data[8] = pgn

\* C18: send_frame of a broadcast frame with n > 8 bytes transmits one BAM;
\* process call k transmits the TP.DT packet k, for k = 1..ceil(n/7), with
\* bytes 7(k-1)+1..7k of the payload, padded with 0xFF; the broadcast-out
\* slot is occupied until packet ceil(n/7) is sent and empty afterwards,
\* and a later process call transmits nothing
C18_BamEgress ==
    /\ fault = "none"
    /\ sent # NoFrame =>
           LET n == Len(sent.data)
               sa == sent.header.source_address
           IN  /\ inputs = 0 =>
                      /\ Len(can_out) = 1
                      /\ IsBam(can_out[1], sa, n, sent.header.pgn)
               /\ inputs \in 1..PacketCount(n) =>
                      can_out = <<TpdtCan(Tpdt(ADDRESS_GLOBAL, sa, inputs,
                                               Chunk(sent.data, inputs)))>>
               /\ inputs > PacketCount(n) => can_out = <<>>
               /\ transport.out_broadcast = NoFrame <=> inputs >= PacketCount(n)

\* the last packet of a transfer of two packets has been transmitted
C18_Witness ==
    /\ sent # NoFrame
    /\ inputs = PacketCount(Len(sent.data))
    /\ can_out = <<TpdtCan(Tpdt(ADDRESS_GLOBAL, sent.header.source_address, inputs,
                                Chunk(sent.data, inputs)))>>
    /\ can_out[1].data[8] = 255
    /\ transport.out_broadcast = NoFrame

---------------------------------------------------------------------------
(* Egress RTS/CTS: the application accepts all destination addresses,      *)
(* sends one peer-to-peer frame of more than 8 bytes through               *)
(* Stack.send_frame and calls process; the receiver's CTS frames come in   *)
(* through the driver.  can_in is the last CTS, inputs the number of CTS   *)
(* so far, ticks the number of process calls since the last CTS came in    *)
(* (that call included), can_out what the last call transmitted            *)

MaxCts == 2

CtsFrames ==
    {Frame(Header(PeerToPeerPgn, 0, SenderAddress, ReceiverAddress), Payload(n)) :
         n \in 9..MaxPayloadLen}

\* the CTS frames that ask for packets of the transfer
CtsFor(frame) ==
    IF frame = NoFrame THEN {}
    ELSE {<<TpcmCan(Cts(k, n, frame.header.pgn, SenderAddress, ReceiverAddress))>> :
              n \in 1..PacketCount(Len(frame.data)), k \in 1..PacketCount(Len(frame.data))}

\* stack.set_accepted_all(true)
CtsAcceptAll ==
    /\ ~accept_all_da
    /\ Becomes([Self EXCEPT !.accept_all_da = TRUE])
    /\ call' = Call("set_accepted_all", 0, TRUE, None)
    /\ UNCHANGED <<now, can_in, inputs, ticks, foreign_claims, peer, sent>>

CtsSubmit(frame) ==
    /\ accept_all_da
    /\ BamSubmit(frame)

\* stack.process() with the CAN frames the driver holds: none, or one CTS
CtsProcess(frames) ==
    /\ fault = "none"
    /\ sent # NoFrame
    /\ IF frames = <<>>
       THEN /\ ticks <= (IF can_in = <<>> THEN 0 ELSE can_in[1].data[2])
            /\ ticks' = ticks + 1
            /\ UNCHANGED <<can_in, inputs>>
       ELSE /\ inputs < MaxCts
            /\ frames[1].data[3] + frames[1].data[2] - 1 <= PacketCount(Len(sent.data))
            /\ inputs' = inputs + 1
            /\ ticks' = 1
            /\ can_in' = frames
    /\ \E overflow_checks \in BOOLEAN :
           Becomes(StackProcess(Self, frames, now, overflow_checks))
    /\ call' = Call("process", 0, None, None)
    /\ UNCHANGED <<now, foreign_claims, peer, sent>>

NextCts ==
    \/ CtsAcceptAll
    \/ \E frame \in CtsFrames : CtsSubmit(frame)
    \/ \E frames \in {<<>>} \cup CtsFor(sent) : CtsProcess(frames)

SpecCts == Init /\ [][NextCts]_vars

\* C19: send_frame of a peer-to-peer frame with more than 8 bytes transmits
\* the RTS; no TP.DT is transmitted before a CTS has come in; from the
\* process call that takes in a CTS {expected_packets = k, next = n} on,
\* call j transmits the TP.DT packet n + j - 1 for j = 1..k and nothing for
\* j > k, until the next CTS; a CTS for the same n sends packet n again
C19_CtsPacing ==
    sent # NoFrame =>
        /\ fault = "none"
        /\ can_in = <<>> =>
               /\ call.op = "send_frame" =>
                      /\ Len(can_out) = 1
                      /\ HeaderFromId(can_out[1].id) =
                             Header(PGN_TP_CM, 7, SenderAddress, ReceiverAddress)
                      /\ can_out[1].data[1] = CTRL_RTS
               /\ call.op = "process" => can_out = <<>>
        /\ can_in # <<>> =>
               LET k == can_in[1].data[2]
                   n == can_in[1].data[3]
               IN  /\ ticks \in 1..k =>
                          can_out = <<TpdtCan(Tpdt(ReceiverAddress, SenderAddress,
                                                   n + ticks - 1,
                                                   Chunk(sent.data, n + ticks - 1)))>>
                   /\ ticks > k => can_out = <<>>

\* a second CTS for packet 1 has made the sender transmit packet 1 again
C19_Witness ==
    /\ sent # NoFrame
    /\ inputs = MaxCts
    /\ can_in # <<>>
    /\ can_in[1].data[3] = 1
    /\ ticks = 1
    /\ transport.out_p2p[<<SenderAddress, ReceiverAddress>>].send_till_index
           = can_in[1].data[2]
    /\ can_out = <<TpdtCan(Tpdt(ReceiverAddress, SenderAddress, 1, Chunk(sent.data, 1)))>>

---------------------------------------------------------------------------
(* Ingress RTS/CTS: a remote sender opens a transfer to the receiver       *)
(* (peer) with an RTS that allows m packets per CTS, and feeds the TP.DT   *)
(* packets in order.  sent is the frame transferred, ticks is m, inputs    *)
(* the number of packets fed, can_out everything the receiver transmitted  *)

MaxPerCts == 3

\* the RTS for n bytes with m packets per CTS arrives
RtsAnnounce(n, m) ==
    /\ fault = "none"
    /\ sent = NoFrame
    /\ BamHandle(TpcmCan(Rts(n, PacketCount(n), m, PeerToPeerPgn,
                             ReceiverAddress, SenderAddress)))
    /\ sent' = Frame(Header(PeerToPeerPgn, 0, SenderAddress, ReceiverAddress), Payload(n))
    /\ ticks' = m
    /\ call' = Call("receiver.handle_frame", 0, n, None)
    /\ UNCHANGED <<now, cf, address_monitor, accept_all_da, transport, can_in, offers,
                   inputs, foreign_claims>>

\* the next TP.DT packet of the transfer arrives
RtsFeed ==
    /\ fault = "none"
    /\ sent # NoFrame
    /\ inputs < PacketCount(Len(sent.data))
    /\ BamHandle(TpdtCan(Tpdt(ReceiverAddress, SenderAddress, inputs + 1,
                              Chunk(sent.data, inputs + 1))))
    /\ inputs' = inputs + 1
    /\ call' = Call("receiver.handle_frame", 0, inputs + 1, None)
    /\ UNCHANGED <<now, cf, address_monitor, accept_all_da, transport, can_in, offers,
                   ticks, foreign_claims, sent>>

NextRtsRx ==
    \/ \E n \in 9..MaxBamLen, m \in 1..MaxPerCts : RtsAnnounce(n, m)
    \/ RtsFeed

SpecRtsRx == InitRts /\ [][NextRtsRx]_vars

\* the CTS the receiver sends for packet next
ReceiverCts(m, next) ==
    TpcmCan(Cts(m, next, PeerToPeerPgn, SenderAddress, ReceiverAddress))

\* C20: on an RTS with m packets per CTS the receiver transmits CTS {m, 1};
\* after every m packets in sequence it transmits CTS {m, next packet} while
\* the transfer is incomplete; with the packet that completes the size it
\* delivers the frame and transmits EndOfMsg {size, packets, pgn} and no CTS
C20_CtsFlow ==
    sent # NoFrame =>
        LET n == Len(sent.data)
            m == ticks
            done == inputs = PacketCount(n)
            rounds == IF done THEN (PacketCount(n) - 1) \div m ELSE inputs \div m
        IN  /\ fault = "none"
            /\ can_out =
                   [j \in 1..(rounds + 1) |-> ReceiverCts(m, (j - 1) * m + 1)]
                   \o (IF done
                       THEN <<TpcmCan(EndOfMsg(n, PacketCount(n), PeerToPeerPgn,
                                               SenderAddress, ReceiverAddress))>>
                       ELSE <<>>)
            /\ Len(received_frames) = (IF done THEN 1 ELSE 0)
            /\ \A k \in 1..Len(received_frames) :
                   /\ received_frames[k].data = sent.data
                   /\ received_frames[k].header.pgn = sent.header.pgn

\* a transfer with two packets per CTS has asked for more packets once and
\* is complete
C20_Witness ==
    /\ sent # NoFrame
    /\ ticks = 2
    /\ inputs = PacketCount(Len(sent.data))
    /\ Len(can_out) = 3
    /\ can_out[2] = ReceiverCts(2, 3)
    /\ Len(received_frames) = 1

---------------------------------------------------------------------------
(* Ingress sessions: the receiver (peer) is handed, one call at a time,   *)
(* RTS frames and TP.DT packets from one remote sender in any order.      *)
(* can_in is the frame of the last call, can_out what the call            *)
(* transmitted, received_frames what it returned                          *)

MaxSeq == 3
OtherPgn == 57088

\* RTS frames for two PGNs, and TP.DT packets with sequence numbers 0..MaxSeq
SessionFrames ==
    {TpcmCan(Rts(n, PacketCount(n), m, pgn, ReceiverAddress, SenderAddress)) :
         n \in 9..MaxPayloadLen, m \in 1..2, pgn \in {PeerToPeerPgn, OtherPgn}}
    \cup {TpdtCan(Tpdt(ReceiverAddress, SenderAddress, k,
                       Chunk(Payload(MaxPayloadLen), IF k = 0 THEN 1 ELSE k))) :
              k \in 0..MaxSeq}

\* the receiver's transport.handle_frame on one CAN frame
SessionHandle(f) ==
    /\ fault = "none"
    /\ \E overflow_checks \in BOOLEAN :
        LET o == TransportHandleFrame(peer, HeaderFromId(f.id), f.data, overflow_checks)
        IN  /\ peer' = o.tr
            /\ can_out' = o.out
            /\ received_frames' = IF o.result = NoFrame THEN <<>> ELSE <<o.result>>
            /\ fault' = o.fault
    /\ can_in' = <<f>>
    /\ call' = Call("receiver.handle_frame", 0, None, None)
    /\ UNCHANGED <<now, cf, address_monitor, accept_all_da, transport, offers,
                   inputs, ticks, foreign_claims, sent>>

NextSession == \E f \in SessionFrames : SessionHandle(f)

SpecSession == InitRts /\ [][NextSession]_vars

\* the key of the sender's ingress session in the receiver
SessionKey == <<SenderAddress, ReceiverAddress>>

\* the frame handed to the receiver in this step, decoded
HandedTpcm(f) == TpcmFromFrame(HeaderFromId(f.id), f.data)
IsHandedRts(f) ==
    HeaderFromId(f.id).pgn = PGN_TP_CM /\ HandedTpcm(f).kind = "Rts"
IsHandedTpdt(f) == HeaderFromId(f.id).pgn = PGN_TP_DT

\* C21: an RTS from S to L that arrives while the ingress session for
\* (S, L) exists makes the receiver transmit exactly one frame, the
\* Abort(AlreadyConnected) with the PGN of that RTS, and no CTS
C21_DuplicateRts ==
    [][(/\ SessionKey \in DOMAIN peer.in_p2p
        /\ call'.op = "receiver.handle_frame"
        /\ IsHandedRts(can_in'[1])) =>
           /\ fault' = "none"
           /\ can_out' = <<TpcmCan(Abort(AlreadyConnected, HandedTpcm(can_in'[1]).pgn,
                                         SenderAddress, ReceiverAddress))>>]_vars

\* a session for one PGN is open and an RTS for the other PGN has been
\* answered with the abort
C21_Witness ==
    /\ call.op = "receiver.handle_frame"
    /\ SessionKey \in DOMAIN peer.in_p2p
    /\ peer.in_p2p[SessionKey].pgn = PeerToPeerPgn
    /\ Len(peer.in_p2p[SessionKey].data) > 0
    /\ can_out = <<TpcmCan(Abort(AlreadyConnected, OtherPgn,
                                 SenderAddress, ReceiverAddress))>>

\* the answer of a receiver to an RTS: is it the CTS that accepts it?
AcceptsRts(tr) ==
    LET rts == Rts(9, 2, 1, PeerToPeerPgn, SenderAddress, ReceiverAddress)
    IN  ProcessTpcm(tr, rts, TRUE).out =
            <<TpcmCan(Cts(1, 1, PeerToPeerPgn, SenderAddress, ReceiverAddress))>>

\* C30: a TP.DT packet from S to L for an open (S, L) session whose sequence
\* number is not the last one plus 1 makes the receiver transmit an
\* Abort(UnexpectedTransfer) and destroy the session, so that the next RTS
\* from S to L is accepted with a CTS
C30_SequenceError ==
    [][(/\ SessionKey \in DOMAIN peer.in_p2p
        /\ call'.op = "receiver.handle_frame"
        /\ IsHandedTpdt(can_in'[1])
        /\ can_in'[1].data[1] # peer.in_p2p[SessionKey].last_packet_index + 1) =>
           /\ fault' = "none"
           /\ Len(can_out') = 1
           /\ HandedTpcm(can_out'[1]).kind = "Abort"
           /\ HandedTpcm(can_out'[1]).a = UnexpectedTransfer
           /\ SessionKey \notin DOMAIN peer'.in_p2p
           /\ AcceptsRts(peer')]_vars

\* a packet out of sequence has been answered with the abort
C30_Witness ==
    /\ call.op = "receiver.handle_frame"
    /\ IsHandedTpdt(can_in[1])
    /\ SessionKey \in DOMAIN peer.in_p2p
    /\ can_in[1].data[1] # peer.in_p2p[SessionKey].last_packet_index
    /\ Len(can_out) = 1
    /\ HandedTpcm(can_out[1]).kind = "Abort"
    /\ HandedTpcm(can_out[1]).a = UnexpectedTransfer

---------------------------------------------------------------------------
(* Malformed ingress: the stack of Spec, with a bus that carries requests  *)
(* whose payload is not a 3 byte PGN and TP.CM frames with an unknown      *)
(* control byte, next to a well-formed request and a well-formed RTS       *)

\* payload lengths of the requests and control bytes of the TP.CM frames
RequestLengths == {0, 2, 4, 8}
ControlBytes == {0, 18, 254}

MalformedRequests ==
    {FrameCan(Frame(Header(PGN_REQUEST, 6, RemoteAddress, da),
                    [k \in 1..n |-> (IF k = 2 THEN 238 ELSE 0)])) :
         n \in RequestLengths, da \in {ADDRESS_GLOBAL, PreferredAddress, OtherAddress}}

MalformedTpcms ==
    {FrameCan(Frame(Header(PGN_TP_CM, 7, RemoteAddress, da),
                    <<c, 9, 0, 2, 1, 0, 220, 0>>)) :
         c \in ControlBytes, da \in {ADDRESS_GLOBAL, PreferredAddress, OtherAddress}}

WellFormed ==
    {FrameCan(RequestFrame(PGN_ADDRESSCLAIM, RemoteAddress, ADDRESS_GLOBAL)),
     TpcmCan(Rts(9, 2, 1, PeerToPeerPgn, PreferredAddress, RemoteAddress))}

NextMalformed ==
    \/ \E a \in LocalAddresses, n \in LocalNames : Register(a, n)
    \/ \E d \in TickSteps : Tick(d)
    \/ \E f \in MalformedRequests \cup MalformedTpcms \cup WellFormed : Process(<<f>>)
    \/ Process(<<>>)

SpecMalformed == Init /\ [][NextMalformed]_vars

\* a request whose payload is not a 3 byte PGN, or a TP.CM frame whose
\* control byte is none of RTS, CTS, EndOfMsg, BAM, Abort
IsMalformed(f) ==
    /\ f.ext
    /\ \/ HeaderFromId(f.id).pgn = PGN_REQUEST /\ Len(f.data) # 3
       \/ /\ HeaderFromId(f.id).pgn = PGN_TP_CM
          /\ f.data[1] \notin {CTRL_RTS, CTRL_CTS, CTRL_END_OF_MSG_ACK, CTRL_BAM,
                               CTRL_CONN_ABORT}

\* C22: a process call that is handed a malformed request or a TP.CM frame
\* with an unknown control byte does not panic, and the frame is dropped:
\* it is not delivered to the stack's receive queue or to a CF
C22_MalformedRejected ==
    (call.op = "process" /\ \E k \in 1..Len(can_in) : IsMalformed(can_in[k])) =>
        /\ fault = "none"
        /\ \A k \in 1..Len(received_frames) :
               ~IsMalformed(FrameCan(received_frames[k]))
        /\ \A i \in 1..Len(cf) : \A k \in 1..Len(cf[i].receive_queue) :
               ~IsMalformed(FrameCan(cf[i].receive_queue[k]))

\* a malformed request to all has been handed to a stack with a CF
C22_Witness ==
    /\ call.op = "process"
    /\ Len(cf) = 1
    /\ \E k \in 1..Len(can_in) :
           /\ IsMalformed(can_in[k])
           /\ HeaderFromId(can_in[k].id).pgn = PGN_REQUEST
           /\ HeaderFromId(can_in[k].id).destination_address = ADDRESS_GLOBAL

---------------------------------------------------------------------------
(* The codecs: a header is encoded to its 29 bit identifier and decoded     *)
(* again, and a TPCM value is turned into its frame and parsed again.       *)
(* sent is the value, can_in holds its encoding, call.ret the decoded value *)

HeaderPriorities == {0, 5, 7}
HeaderAddresses == {0, 24, 255}
PduFormats == {0, 47, 239, 240, 241, 255}
DataPages == 0..3
GroupExtensions == {0, 32, 255}

\* the valid headers: a broadcast PGN (PDU format above 240) has no
\* destination, any other PGN has one and a low byte of 0
ValidHeaders ==
    {Header(dp * 65536 + pf * 256 + ps, p, sa, da) :
         <<dp, pf, ps, p, sa, da>> \in
             {t \in DataPages \X PduFormats \X GroupExtensions \X HeaderPriorities
                    \X HeaderAddresses \X (HeaderAddresses \cup {None}) :
                  IF PgnIsBroadcast(t[2] * 256)
                  THEN t[6] = None
                  ELSE t[6] # None /\ t[3] = 0}}

\* u32::from(header)
HeaderEncode(h) ==
    /\ call.op = "new"
    /\ sent' = h
    /\ can_in' = <<HeaderToId(h)>>
    /\ call' = Call("u32::from", 0, None, HeaderToId(h))
    /\ UNCHANGED <<now, cf, address_monitor, received_frames, accept_all_da, transport,
                   can_out, fault, offers, inputs, ticks, foreign_claims, peer>>

\* Header::from(id)
HeaderDecode ==
    /\ call.op = "u32::from"
    /\ call' = Call("Header::from", 0, None, HeaderFromId(can_in[1]))
    /\ UNCHANGED <<now, cf, address_monitor, received_frames, accept_all_da, transport,
                   can_in, can_out, fault, offers, inputs, ticks, foreign_claims, peer,
                   sent>>

TpcmSizes == {9, 300, 1785}
TpcmPackets == {2, 255}
TpcmPgns == {PeerToPeerPgn, BroadcastPgn, FastPacketPgn}
TpcmReasons == {AlreadyConnected, UnexpectedTransfer, AbortOther}
TpcmAddresses == {<<SenderAddress, ReceiverAddress>>, <<ReceiverAddress, ReceiverAddress>>}

\* values of the five variants; a BAM has the remote address 0xFF
TpcmValues ==
    {Rts(n, k, m, pgn, a[1], a[2]) :
         <<n, k, m, pgn, a>> \in TpcmSizes \X TpcmPackets \X TpcmPackets \X TpcmPgns
                                   \X TpcmAddresses}
    \cup {Cts(k, m, pgn, a[1], a[2]) :
         <<k, m, pgn, a>> \in TpcmPackets \X TpcmPackets \X TpcmPgns \X TpcmAddresses}
    \cup {EndOfMsg(n, k, pgn, a[1], a[2]) :
         <<n, k, pgn, a>> \in TpcmSizes \X TpcmPackets \X TpcmPgns \X TpcmAddresses}
    \cup {Abort(r, pgn, a[1], a[2]) :
         <<r, pgn, a>> \in TpcmReasons \X TpcmPgns \X TpcmAddresses}
    \cup {Bam(n, k, pgn, ADDRESS_GLOBAL, local) :
         <<n, k, pgn, local>> \in TpcmSizes \X TpcmPackets \X TpcmPgns
                                    \X {SenderAddress, ADDRESS_GLOBAL}}

\* Frame::from(v)
TpcmEncode(v) ==
    /\ call.op = "new"
    /\ sent' = v
    /\ can_in' = <<TpcmToFrame(v)>>
    /\ call' = Call("Frame::from", 0, None, None)
    /\ UNCHANGED <<now, cf, address_monitor, received_frames, accept_all_da, transport,
                   can_out, fault, offers, inputs, ticks, foreign_claims, peer>>

\* TPCM::from_frame(header, data)
TpcmDecode ==
    /\ call.op = "Frame::from"
    /\ fault' = TpcmParseFault(can_in[1].header, can_in[1].data)
    /\ call' = Call("TPCM::from_frame", 0, None,
                    IF fault' = "none"
                    THEN TpcmFromFrame(can_in[1].header, can_in[1].data) ELSE None)
    /\ UNCHANGED <<now, cf, address_monitor, received_frames, accept_all_da, transport,
                   can_in, can_out, offers, inputs, ticks, foreign_claims, peer, sent>>

NextCodec ==
    \/ \E h \in ValidHeaders : HeaderEncode(h)
    \/ HeaderDecode
    \/ \E v \in TpcmValues : TpcmEncode(v)
    \/ TpcmDecode

SpecCodec == Init /\ [][NextCodec]_vars

\* C23: decoding the identifier that a valid header encodes to gives the
\* header again
C23_HeaderRoundTrip ==
    call.op = "Header::from" => call.ret = sent

\* a header with a destination address has made the round trip
C23_Witness ==
    /\ call.op = "Header::from"
    /\ sent.destination_address = 24
    /\ call.ret = sent

\* C39: a header decoded from a 29 bit identifier has a destination
\* address if and only if its PGN is not a broadcast PGN (PDU format above
\* 240), whatever the PDU format byte of the identifier is
C39_DecodedDestination ==
    call.op = "Header::from" =>
        (call.ret.destination_address # None <=> ~PgnIsBroadcast(call.ret.pgn))

\* an identifier with the PDU format 240 has been decoded
C39_Witness ==
    /\ call.op = "Header::from"
    /\ Shr(can_in[1], 16) % 256 = 240
    /\ call.ret.source_address = 24

\* C24: parsing the header and data of the frame of a TPCM value gives a
\* value equal to it, remote_address and local_address included
C24_TpcmRoundTrip ==
    call.op = "TPCM::from_frame" => fault = "none" /\ call.ret = sent

\* an RTS with different remote and local addresses has been encoded and
\* parsed
C24_Witness ==
    /\ call.op = "TPCM::from_frame"
    /\ fault = "none"
    /\ sent.kind = "Rts"
    /\ sent.remote_address # sent.local_address
    /\ call.ret.kind = "Rts"

---------------------------------------------------------------------------
(* Address management with several control functions, and the search for   *)
(* an address after the request timeout                                    *)

\* the NAMEs in the address claims among CAN frames
RECURSIVE ClaimedNames(_)
ClaimedNames(frames) ==
    IF frames = <<>> THEN {}
    ELSE (IF Head(frames).ext /\ HeaderFromId(Head(frames).id).pgn = PGN_ADDRESSCLAIM
          THEN {Head(frames).data} ELSE {})
         \cup ClaimedNames(Tail(frames))

\* C25: on a stack with two or more CFs with pairwise distinct NAMEs, where
\* no frame from the bus carries the NAME of a local CF, no call ends in
\* the panic "Same Name on Bus"
C25_NoNameCollision ==
    (/\ Len(cf) >= 2
     /\ \A i, j \in 1..Len(cf) : i # j => cf[i].name # cf[j].name
     /\ \A i \in 1..Len(cf) : cf[i].name \notin ClaimedNames(can_in)) =>
        fault # "panic: Same Name on Bus"

\* two CFs are registered and process has been called
C25_Witness ==
    /\ Len(cf) = 2
    /\ cf[1].name # cf[2].name
    /\ call.op = "process"

\* The search for an address: one CF, address-configurable or not; before
\* the CF has claimed an address the bus carries, once, the address claims
\* of a set of addresses, each from a NAME of its own, and afterwards
\* address claims from the address of the CF

SearchFrom == 127
SearchBelow == 147

\* the window of the search, and the sets of addresses claimed on the bus
SearchWindow == SearchFrom..(SearchBelow - 1)
ClaimedSets ==
    {{}, {PreferredAddress}, SearchFrom..(PreferredAddress - 1),
     SearchFrom..PreferredAddress, SearchWindow \ {SearchBelow - 2},
     SearchWindow, SearchWindow \cup {0}, SearchWindow \cup {0, 1, 255}}

\* the address claims of the addresses of A, in ascending order
ClaimsOf(A) ==
    LET sorted == SortedInts(A)
    IN  [k \in 1..Len(sorted) |-> ClaimCan(sorted[k], NameOf(sorted[k]))]

\* the preferred addresses of the CF: one inside the window of the search
\* and one next to the end of the range of configured addresses
SearchAddresses == {PreferredAddress, 246}

\* stack.register_control_function(a, name) on a new stack
SearchRegister(a, name) ==
    /\ cf = <<>>
    /\ Becomes(RegisterControlFunction(Self, a, name))
    /\ call' = Call("register", 1, None, None)
    /\ UNCHANGED <<now, can_in, inputs, ticks, foreign_claims, peer, sent>>

\* stack.process() with the address claims of A on the bus; the bus answers
\* once, before the CF has claimed an address
SearchProcess(A) ==
    /\ fault = "none"
    /\ Len(cf) = 1
    /\ A # {} => foreign_claims = {} /\ cf[1].address_state \in {"Preferred", "Requested"}
    /\ foreign_claims' = foreign_claims \cup A
    /\ \E overflow_checks \in BOOLEAN :
           Becomes(StackProcess(Self, ClaimsOf(A), now, overflow_checks))
    /\ can_in' = ClaimsOf(A)
    /\ call' = Call("process", 0, None, None)
    /\ UNCHANGED <<now, inputs, ticks, peer, sent>>

\* stack.process() with an address claim from the address the CF has claimed
SearchContest(name) ==
    /\ fault = "none"
    /\ Len(cf) = 1
    /\ cf[1].address_state \in {"WaitForVeto", "AddressClaimed"}
    /\ inputs < MaxInputs
    /\ inputs' = inputs + 1
    /\ foreign_claims' = foreign_claims \cup {cf[1].address}
    /\ \E overflow_checks \in BOOLEAN :
           Becomes(StackProcess(Self, <<ClaimCan(cf[1].address, name)>>, now,
                                overflow_checks))
    /\ can_in' = <<ClaimCan(cf[1].address, name)>>
    /\ call' = Call("process", 0, None, None)
    /\ UNCHANGED <<now, ticks, peer, sent>>

NextSearch ==
    \/ \E a \in SearchAddresses, name \in LocalNames : SearchRegister(a, name)
    \/ \E d \in TickSteps : Tick(d)
    \/ \E A \in ClaimedSets : SearchProcess(A)
    \/ \E name \in RemoteNames : SearchContest(name)

SpecSearch == Init /\ [][NextSearch]_vars

\* the CF is in Requested, its request timeout has expired, and process is
\* called
SearchDue ==
    /\ Len(cf) = 1
    /\ cf[1].address_configurable
    /\ cf[1].address_state = "Requested"
    /\ RequestTimeout < now - cf[1].ts
    /\ call'.op = "process"

\* the keys of the monitor map when the CF is processed: the call has handled
\* the frames from the bus before
SearchKeys == MonitorKeys(DrainCan(Self, can_in', now, TRUE).address_monitor)

FreeInWindow == SearchWindow \ SearchKeys

\* C26: when the request timeout of a configurable CF has expired, its
\* preferred address is in the monitor map and so is every address from
\* 127 up to 146, process returns with the CF in CannotClaim, its
\* cannot-claim frame transmitted and its address unchanged
C26_AddressExhaustion ==
    [][(/\ SearchDue
        /\ cf[1].address \in SearchKeys
        /\ FreeInWindow = {}) =>
           /\ fault' = "none"
           /\ cf'[1].address_state = "CannotClaim"
           /\ cf'[1].address = cf[1].address
           /\ Count(can_out', CannotClaimCan(cf[1])) >= 1]_vars

\* the window was full when the timeout expired, and process has left the
\* CF with a claim for an address below the window
C26_Witness ==
    /\ call.op = "process"
    /\ Len(cf) = 1
    /\ cf[1].address_configurable
    /\ SearchWindow \subseteq foreign_claims
    /\ cf[1].preferred \in SearchWindow
    /\ cf[1].address_state = "WaitForVeto"
    /\ cf[1].ts = now
    /\ now > RequestTimeout
    /\ cf[1].address < SearchFrom

Contests ==
    {k \in 1..Len(offers) :
         /\ call.op = "process"
         /\ offers[k].from = 0
         /\ offers[k].frame.header.pgn = PGN_ADDRESSCLAIM
         /\ offers[k].frame.header.source_address = offers[k].pre.address
         /\ offers[k].pre.address_state \in {"WaitForVeto", "AddressClaimed"}}

\* C28: an address-configurable CF in WaitForVeto or AddressClaimed that
\* receives an address claim from its own address with a lower NAME moves to
\* 128 when its address was below 128 or at least 247 and to the next
\* address otherwise, is in WaitForVeto since now, and its address claim
\* from the new address is transmitted
C28_ConfigurableLoss ==
    \A k \in Contests :
        LET pre == offers[k].pre
            post == offers[k].post
            new == IF pre.address < 128 \/ pre.address >= 247 THEN 128
                   ELSE pre.address + 1
        IN  (pre.address_configurable /\ NameCmp(offers[k].frame.data, pre.name) < 0) =>
                /\ fault = "none"
                /\ post.address = new
                /\ post.address_state = "WaitForVeto"
                /\ post.ts = now
                /\ post.send_queue = Append(pre.send_queue,
                       Frame(Header(PGN_ADDRESSCLAIM, 6, new, ADDRESS_GLOBAL), pre.name))
                /\ Count(can_out, ClaimCan(new, pre.name)) >= 1
                /\ cf[offers[k].to].address = new
                /\ cf[offers[k].to].address_state = "WaitForVeto"
                /\ cf[offers[k].to].ts = now

\* a CF has lost the last address of the range and is back at 128
C28_Witness ==
    \E k \in Contests :
        /\ offers[k].pre.address_configurable
        /\ NameCmp(offers[k].frame.data, offers[k].pre.name) < 0
        /\ offers[k].pre.address = 247
        /\ cf[offers[k].to].address = 128
        /\ cf[offers[k].to].address_state = "WaitForVeto"

\* C29: a CF in WaitForVeto or AddressClaimed that receives an address claim
\* from its own address with a higher NAME queues its own address claim
\* again, which the process call transmits, and keeps its address, its
\* state and its veto timestamp
C29_ConflictWin ==
    \A k \in Contests :
        LET pre == offers[k].pre
            post == offers[k].post
        IN  NameCmp(offers[k].frame.data, pre.name) > 0 =>
                /\ fault = "none"
                /\ post.address = pre.address
                /\ post.address_state = pre.address_state
                /\ post.ts = pre.ts
                /\ post.send_queue = Append(pre.send_queue,
                       Frame(Header(PGN_ADDRESSCLAIM, 6, pre.address, ADDRESS_GLOBAL),
                             pre.name))
                /\ Count(can_out, ClaimCan(pre.address, pre.name)) >= 1

\* a fixed-address CF in AddressClaimed has defended its address
C29_Witness ==
    \E k \in Contests :
        /\ ~offers[k].pre.address_configurable
        /\ NameCmp(offers[k].frame.data, offers[k].pre.name) > 0
        /\ offers[k].pre.address_state = "AddressClaimed"
        /\ cf[offers[k].to].address_state = "AddressClaimed"
        /\ can_out = <<ClaimCan(offers[k].pre.address, offers[k].pre.name)>>

---------------------------------------------------------------------------
(* Egress sessions under control frames of the peer: the application       *)
(* accepts all destination addresses and sends one peer-to-peer frame of   *)
(* more than 8 bytes from L = SenderAddress to R = ReceiverAddress; each   *)
(* process call takes in no frame or one TP.CM frame addressed to L.       *)
(* can_in is the frame the last call took in, can_out what it              *)
(* transmitted, inputs is 1 once an EndOfMsg of R has come in for the      *)
(* sender, ticks is 1 once a CTS of R has come in                          *)

\* the values of the two CTS fields
CtsValues == {0, 1, 3, 255}

\* the keys of the egress sender L -> R and of the ingress receiver R -> L
EgressKey == <<SenderAddress, ReceiverAddress>>
IngressKey == <<ReceiverAddress, SenderAddress>>

\* the TP.CM frames addressed to L: CTS with any field values, EndOfMsg,
\* and RTS from R; Abort from R and from a third node, for two PGNs
PeerFrames ==
    {TpcmCan(Cts(k, n, PeerToPeerPgn, SenderAddress, ReceiverAddress)) :
         k \in CtsValues, n \in CtsValues}
    \cup {TpcmCan(EndOfMsg(MaxPayloadLen, PacketCount(MaxPayloadLen), PeerToPeerPgn,
                           SenderAddress, ReceiverAddress))}
    \cup {TpcmCan(Rts(9, 2, 1, pgn, SenderAddress, ReceiverAddress)) :
              pgn \in {PeerToPeerPgn, OtherPgn}}
    \cup {TpcmCan(Abort(AbortOther, pgn, SenderAddress, from)) :
              pgn \in {PeerToPeerPgn, OtherPgn}, from \in {ReceiverAddress, RemoteAddress}}

\* does the call take in a TP.CM frame of this kind from this node?
TakesIn(frames, kind, from) ==
    /\ frames # <<>>
    /\ HeaderFromId(frames[1].id).pgn = PGN_TP_CM
    /\ HeaderFromId(frames[1].id).source_address = from
    /\ HandedTpcm(frames[1]).kind = kind

\* stack.process() with the CAN frames the driver holds: none, or one TP.CM
EgressProcess(frames) ==
    /\ fault = "none"
    /\ sent # NoFrame
    /\ \E overflow_checks \in BOOLEAN :
           Becomes(StackProcess(Self, frames, now, overflow_checks))
    /\ can_in' = frames
    /\ inputs' = IF /\ TakesIn(frames, "EndOfMsg", ReceiverAddress)
                    /\ EgressKey \in DOMAIN transport.out_p2p
                 THEN 1 ELSE inputs
    /\ ticks' = IF TakesIn(frames, "Cts", ReceiverAddress) THEN 1 ELSE ticks
    /\ call' = Call("process", 0, None, None)
    /\ UNCHANGED <<now, foreign_claims, peer, sent>>

NextEgress ==
    \/ CtsAcceptAll
    \/ \E frame \in CtsFrames : CtsSubmit(frame)
    \/ \E frames \in {<<>>} \cup {<<f>> : f \in PeerFrames} : EgressProcess(frames)

SpecEgress == Init /\ [][NextEgress]_vars

\* the TP.DT frames among the frames a call transmitted
TpdtOut(frames) ==
    {i \in 1..Len(frames) : HeaderFromId(frames[i].id).pgn = PGN_TP_DT}

\* C31: the process call that takes in an EndOfMsg of the peer R for the
\* egress sender keyed (L, R) destroys that sender, and no later process
\* call transmits a TP.DT packet, also after a further CTS of R
C31_EndOfMsg ==
    [][/\ (/\ TakesIn(can_in', "EndOfMsg", ReceiverAddress)
           /\ EgressKey \in DOMAIN transport.out_p2p) =>
              EgressKey \notin DOMAIN transport'.out_p2p
       /\ (inputs = 1 /\ call'.op = "process") => TpdtOut(can_out') = {}]_vars

\* after the EndOfMsg a CTS of the peer has come in and process has run
C31_Witness ==
    /\ inputs = 1
    /\ call.op = "process"
    /\ TakesIn(can_in, "Cts", ReceiverAddress)
    /\ HandedTpcm(can_in[1]).a = 1
    /\ HandedTpcm(can_in[1]).b = 1


\* the Abort frame a call takes in, if it takes one in
TakesInAbort(frames) ==
    /\ frames # <<>>
    /\ HeaderFromId(frames[1].id).pgn = PGN_TP_CM
    /\ HandedTpcm(frames[1]).kind = "Abort"

\* C32: the process call that takes in an Abort with PGN p from a node X
\* addressed to L destroys the egress sender L -> R if X = R and its PGN is
\* p, and the ingress receiver R -> L if X = R and its PGN is p; every
\* other session, and every session when the PGN or the pair differs, stays
C32_Abort ==
    [][TakesInAbort(can_in') =>
         LET m == HandedTpcm(can_in'[1])
             hit_out == /\ m.remote_address = ReceiverAddress
                        /\ EgressKey \in DOMAIN transport.out_p2p
                        /\ transport.out_p2p[EgressKey].pdu.header.pgn = m.pgn
             hit_in == /\ m.remote_address = ReceiverAddress
                       /\ IngressKey \in DOMAIN transport.in_p2p
                       /\ transport.in_p2p[IngressKey].pgn = m.pgn
         IN  /\ DOMAIN transport'.out_p2p =
                    DOMAIN transport.out_p2p \ (IF hit_out THEN {EgressKey} ELSE {})
             /\ transport'.in_p2p =
                    IF hit_in THEN MapRemove(transport.in_p2p, IngressKey)
                    ELSE transport.in_p2p]_vars

\* an Abort of R with the PGN of both sessions has been taken in
C32_Witness ==
    /\ call.op = "process"
    /\ TakesInAbort(can_in)
    /\ HandedTpcm(can_in[1]).remote_address = ReceiverAddress
    /\ HandedTpcm(can_in[1]).pgn = PeerToPeerPgn
    /\ sent # NoFrame
    /\ IngressKey \in DOMAIN transport.in_p2p
    /\ transport.in_p2p[IngressKey].pgn = PeerToPeerPgn
    /\ fault = "none"


\* C34: once a CTS of the peer has come in, whatever its two fields are, no
\* call panics, and every TP.DT packet a process call transmits has a
\* sequence number in 1..ceil(n / 7) for the n bytes of the transfer
C34_CtsRobust ==
    (sent # NoFrame /\ ticks = 1) =>
        /\ fault = "none"
        /\ \A i \in TpdtOut(can_out) :
               can_out[i].data[1] \in 1..PacketCount(Len(sent.data))

\* a CTS that asks for 255 packets from packet 1 on has come in and the
\* call has transmitted packet 1
C34_Witness ==
    /\ sent # NoFrame
    /\ ticks = 1
    /\ call.op = "process"
    /\ TakesIn(can_in, "Cts", ReceiverAddress)
    /\ HandedTpcm(can_in[1]).a = 255
    /\ HandedTpcm(can_in[1]).b = 1
    /\ TpdtOut(can_out) = {1}
    /\ can_out[1].data[1] = 1

---------------------------------------------------------------------------
(* Announcement of an egress transfer: the application sends one frame of  *)
(* more than 8 bytes, broadcast or peer-to-peer, and calls process         *)

NextAnnounce ==
    \/ \E frame \in BamFrames \cup CtsFrames : BamSubmit(frame)
    \/ BamProcess

SpecAnnounce == Init /\ [][NextAnnounce]_vars

\* C33: send_frame of a frame of n bytes, 9 <= n, transmits one TP.CM frame,
\* the BAM for a broadcast and the RTS for a peer-to-peer frame, whose
\* packet count field (byte 3) is ceil(n / 7)
C33_PacketCount ==
    (call.op = "send_frame" /\ sent # NoFrame) =>
        /\ Len(can_out) = 1
        /\ HeaderFromId(can_out[1].id).pgn = PGN_TP_CM
        /\ can_out[1].data[1] =
               (IF sent.header.destination_address \in {None, ADDRESS_GLOBAL}
                THEN CTRL_BAM ELSE CTRL_RTS)
        /\ can_out[1].data[4] = PacketCount(Len(sent.data))

\* an RTS for a transfer of three packets has been transmitted
C33_Witness ==
    /\ call.op = "send_frame"
    /\ sent # NoFrame
    /\ Len(sent.data) = 15
    /\ Len(can_out) = 1
    /\ can_out[1].data[1] = CTRL_RTS

---------------------------------------------------------------------------
(* Fast-Packet reassembly: a transport created with the Fast-Packet PGN is *)
(* handed, one call at a time, frames of messages with two sequence        *)
(* numbers in any order.  can_in is the frame of the last call,            *)
(* received_frames what the call returned, and sent follows the message    *)
(* whose frames have been handed over in order without a gap so far        *)

\* the announced sizes and the sequence numbers of the messages
FpRxSizes == {4, 6, 9, 16}
FpRxSequences == {0, 1}

\* the payload of the message with sequence number s, and its frames
FpRxPayload(s, e) == [k \in 1..e |-> 100 * s + k]
FpRxFrameCount(e) == IF e <= 6 THEN 1 ELSE 1 + (e \div 7)

\* frame number item of the message: the first frame carries the size and 6
\* bytes, the others 7 bytes, padded with 0xFF
FpRxFrame(s, e, item, priority) ==
    LET from == IF item = 0 THEN 0 ELSE 6 + 7 * (item - 1)
        n == IF item = 0 THEN 6 ELSE 7
        bytes == [j \in 1..n |-> IF from + j <= e THEN 100 * s + from + j ELSE 255]
    IN  CanFrame(HeaderToId(Header(FastPacketPgn, priority, FastPacketSource, None)),
                 <<32 * s + item>> \o (IF item = 0 THEN <<e>> ELSE <<>>) \o bytes)

\* what identifies a frame: its sequence number, size, item and priority
FpRxItems ==
    {<<s, e, item, p>> \in FpRxSequences \X FpRxSizes \X (0..2) \X {3, 6} :
         item < FpRxFrameCount(e) /\ (item = 0 => p = 3)}

\* the message followed after this frame: a first frame starts one (stale
\* tells whether a reassembly with another sequence number was open), the
\* next frame of the followed message continues it
FpRxFollow(x) ==
    IF x[3] = 0
    THEN [s |-> x[1], e |-> x[2], items |-> 1,
          stale |-> /\ FastPacketPgn \in DOMAIN transport.receiver
                    /\ transport.receiver[FastPacketPgn].sequence # x[1]]
    ELSE IF sent # NoFrame /\ sent.s = x[1] /\ sent.e = x[2] /\ sent.items = x[3]
    THEN [sent EXCEPT !.items = x[3] + 1]
    ELSE NoFrame

\* transport.handle_frame on one CAN frame
FpRxHandle(x) ==
    /\ fault = "none"
    /\ LET f == FpRxFrame(x[1], x[2], x[3], x[4])
       IN  /\ \E overflow_checks \in BOOLEAN :
                LET o == TransportHandleFrame(transport, HeaderFromId(f.id), f.data,
                                              overflow_checks)
                IN  /\ transport' = o.tr
                    /\ can_out' = o.out
                    /\ received_frames' = IF o.result = NoFrame THEN <<>> ELSE <<o.result>>
                    /\ fault' = o.fault
           /\ can_in' = <<f>>
    /\ sent' = FpRxFollow(x)
    /\ call' = Call("handle_frame", 0, None, None)
    /\ UNCHANGED <<now, cf, address_monitor, accept_all_da, offers, inputs, ticks,
                   foreign_claims, peer>>

NextFpRx == \E x \in FpRxItems : FpRxHandle(x)

SpecFpRx == InitFp /\ [][NextFpRx]_vars


\* C35: a first frame (item 0) announcing e bytes with sequence s opens the
\* receiver of the PGN; a later frame with sequence s appends its payload,
\* a frame with another sequence is ignored; the frame that brings the
\* collected bytes to e or more makes the call return exactly one frame,
\* with exactly the first e bytes collected and the header of that CAN
\* frame, and removes the receiver; no call panics
C35_FpReceive ==
    [][call'.op = "handle_frame" =>
         LET f == can_in'[1]
             seq == f.data[1] \div 32
             item == f.data[1] % 32
             open == FastPacketPgn \in DOMAIN transport.receiver
             rec == transport.receiver[FastPacketPgn]
             all == rec.data \o SubSeq(f.data, 2, 8)
         IN  /\ fault' = "none"
             /\ (~open /\ item = 0) =>
                    /\ FastPacketPgn \in DOMAIN transport'.receiver
                    /\ transport'.receiver[FastPacketPgn].expected_bytes = f.data[2]
                    /\ transport'.receiver[FastPacketPgn].sequence = seq
                    /\ received_frames' = <<>>
             /\ (open /\ item # 0 /\ seq = rec.sequence) =>
                    IF Len(all) >= rec.expected_bytes
                    THEN /\ received_frames' =
                                <<Frame(HeaderFromId(f.id),
                                        SubSeq(all, 1, rec.expected_bytes))>>
                         /\ FastPacketPgn \notin DOMAIN transport'.receiver
                    ELSE /\ received_frames' = <<>>
                         /\ transport'.receiver =
                                [transport.receiver EXCEPT ![FastPacketPgn].data = all]
             /\ (open /\ seq # rec.sequence) =>
                    /\ received_frames' = <<>>
                    /\ transport' = transport]_vars

\* the third frame of a 16-byte message has completed it
C35_Witness ==
    /\ call.op = "handle_frame"
    /\ can_in = <<FpRxFrame(1, 16, 2, 6)>>
    /\ received_frames = <<Frame(Header(FastPacketPgn, 6, FastPacketSource, None),
                                 FpRxPayload(1, 16))>>
    /\ FastPacketPgn \notin DOMAIN transport.receiver
    /\ fault = "none"


\* C36: a message of more than one frame whose first frame arrives while a
\* reassembly with another sequence number is open on the PGN, and whose
\* frames then arrive in order, is returned with exactly its payload by the
\* call that takes its last frame
C36_FpRecovery ==
    (/\ sent # NoFrame
     /\ sent.stale
     /\ sent.e > 6
     /\ sent.items = FpRxFrameCount(sent.e)) =>
        /\ Len(received_frames) = 1
        /\ received_frames[1].data = FpRxPayload(sent.s, sent.e)

\* all three frames of a 16-byte message have been handed over in order
\* after a reassembly with the other sequence number was left open
C36_Witness ==
    /\ sent # NoFrame
    /\ sent.stale
    /\ sent.e = 16
    /\ sent.items = FpRxFrameCount(sent.e)
    /\ call.op = "handle_frame"
    /\ fault = "none"

---------------------------------------------------------------------------
(* Fast-Packet transmission: the application sends messages of more than   *)
(* 8 bytes on the Fast-Packet PGN, also while one is in flight, and calls  *)
(* process.  inputs is the number of messages accepted so far, sent the    *)
(* last accepted one, ticks the number of process calls since it was       *)
(* accepted, can_out what the last call transmitted; call.arg tells        *)
(* whether a send_frame call found the PGN free                            *)

MaxFpMessages == 257

FpTxFrames ==
    {Frame(Header(FastPacketPgn, 3, FastPacketSource, None), Payload(n)) : n \in {9, 16}}

\* the number of follow-on frames of a message of n bytes, n > 6
FpTxFollowOns(n) == ((n - 6) + 6) \div 7

FpTxInFlight == FastPacketPgn \in DOMAIN transport.transmitter

\* stack.send_frame(frame)
FpTxSend(frame) ==
    /\ fault = "none"
    /\ inputs < MaxFpMessages
    /\ \E overflow_checks \in BOOLEAN :
           Becomes(StackSendFrame(Self, frame, overflow_checks))
    /\ inputs' = IF FpTxInFlight THEN inputs ELSE inputs + 1
    /\ sent' = IF FpTxInFlight THEN sent ELSE frame
    /\ ticks' = IF FpTxInFlight THEN ticks ELSE 0
    /\ call' = Call("send_frame", 0, ~FpTxInFlight, None)
    /\ UNCHANGED <<now, can_in, foreign_claims, peer>>

\* stack.process(); one call more than the message has follow-on frames
FpTxProcess ==
    /\ fault = "none"
    /\ sent # NoFrame
    /\ ticks <= FpTxFollowOns(Len(sent.data))
    /\ \E overflow_checks \in BOOLEAN :
           Becomes(StackProcess(Self, <<>>, now, overflow_checks))
    /\ ticks' = ticks + 1
    /\ call' = Call("process", 0, None, None)
    /\ UNCHANGED <<now, can_in, inputs, foreign_claims, peer, sent>>

NextFpTx ==
    \/ \E frame \in FpTxFrames : FpTxSend(frame)
    \/ FpTxProcess

SpecFpTx == InitFp /\ [][NextFpTx]_vars

\* frame number item of a message with the sequence number seq
FpTxFrame(seq, frame, item) ==
    LET from == IF item = 0 THEN 0 ELSE 6 + 7 * (item - 1)
        n == IF item = 0 THEN 6 ELSE 7
        bytes == [j \in 1..n |-> IF from + j <= Len(frame.data)
                                 THEN frame.data[from + j] ELSE 255]
    IN  CanFrame(HeaderToId(frame.header),
                 <<32 * seq + item>>
                     \o (IF item = 0 THEN <<Len(frame.data)>> ELSE <<>>) \o bytes)

\* C37: the k-th accepted message (k = inputs - 1) carries the sequence
\* number k mod 8 in the top 3 bits of byte 0 of each of its frames; the
\* send_frame call transmits its frame with item 0, process call j its
\* frame with item j, and nothing after the last one; a send_frame call
\* while a message is in flight transmits nothing and leaves the sequence
\* counter alone; no call panics
C37_FpSequencing ==
    sent # NoFrame =>
        LET seq == (inputs - 1) % 8
        IN  /\ fault = "none"
            /\ transport.last_used_sequence[FastPacketPgn] % 8 = inputs % 8
            /\ (call.op = "send_frame" /\ call.arg = TRUE) =>
                   can_out = <<FpTxFrame(seq, sent, 0)>>
            /\ (call.op = "send_frame" /\ call.arg = FALSE) => can_out = <<>>
            /\ (call.op = "process" /\ ticks <= FpTxFollowOns(Len(sent.data))) =>
                   can_out = <<FpTxFrame(seq, sent, ticks)>>
            /\ (call.op = "process" /\ ticks > FpTxFollowOns(Len(sent.data))) =>
                   can_out = <<>>

\* the ninth message is under way with the sequence number 0 again, and a
\* send_frame call in between has been ignored
C37_Witness ==
    /\ inputs = 9
    /\ call.op = "send_frame"
    /\ call.arg = FALSE
    /\ can_out = <<>>
    /\ ticks = 1
    /\ FpTxInFlight
    /\ transport.transmitter[FastPacketPgn].sequence = 8
    /\ fault = "none"

---------------------------------------------------------------------------
(* The address monitor on its own: it is handed address claims of three    *)
(* NAMEs from four source addresses and requests, one frame per call.      *)
(* sent is the frame of the last call, inputs is 1 when the NAME of that   *)
(* claim was in the map under another address before the call              *)

MonitorAddresses == {OtherAddress, RemoteAddress, PreferredAddress, ADDRESS_NULL}

MonitorFrames ==
    {Frame(Header(PGN_ADDRESSCLAIM, 6, a, ADDRESS_GLOBAL), n) :
         a \in MonitorAddresses, n \in RemoteNames}
    \cup {RequestFrame(pgn, RemoteAddress, ADDRESS_GLOBAL) :
              pgn \in {PGN_ADDRESSCLAIM, OtherPgn}}

\* address_monitor.handle_frame(&frame)
MonitorHandle(frame) ==
    /\ fault = "none"
    /\ fault' = MonitorHandleFrameFault(frame)
    /\ address_monitor' = IF MonitorHandleFrameFault(frame) # "none" THEN address_monitor
                          ELSE MonitorHandleFrame(address_monitor, frame)
    /\ sent' = frame
    /\ inputs' = IF /\ frame.header.pgn = PGN_ADDRESSCLAIM
                    /\ \E e \in address_monitor :
                           e[2] = frame.data /\ e[1] # frame.header.source_address
                 THEN 1 ELSE 0
    /\ call' = Call("monitor.handle_frame", 0, None, None)
    /\ UNCHANGED <<now, cf, received_frames, accept_all_da, transport, can_in, can_out,
                   offers, ticks, foreign_claims, peer>>

NextMonitor == \E frame \in MonitorFrames : MonitorHandle(frame)

SpecMonitor == Init /\ [][NextMonitor]_vars

\* no NAME under two source addresses, and one NAME per source address
MonitorUnique(monitor) ==
    \A e1 \in monitor, e2 \in monitor : (e1[1] = e2[1] \/ e1[2] = e2[2]) => e1 = e2

\* C38: the monitor map never holds a NAME under two source addresses; an
\* address claim from a with NAME n leaves a -> n in the map, without the
\* entry n had before and with the other entries as they were; a request
\* for PGN_ADDRESSCLAIM empties the map, another request leaves it
C38_MonitorUnique ==
    /\ []MonitorUnique(address_monitor)
    /\ [][call'.op = "monitor.handle_frame" =>
            LET a == sent'.header.source_address
                n == sent'.data
            IN  /\ fault' = "none"
                /\ sent'.header.pgn = PGN_ADDRESSCLAIM =>
                       address_monitor' =
                           {e \in address_monitor : e[1] # a /\ e[2] # n} \cup {<<a, n>>}
                /\ sent'.header.pgn = PGN_REQUEST =>
                       address_monitor' =
                           IF RequestedPgn(sent') = PGN_ADDRESSCLAIM THEN {}
                           ELSE address_monitor]_vars

\* a NAME has moved to another address while two other entries stayed
C38_Witness ==
    /\ call.op = "monitor.handle_frame"
    /\ inputs = 1
    /\ sent.header.pgn = PGN_ADDRESSCLAIM
    /\ <<sent.header.source_address, sent.data>> \in address_monitor
    /\ Cardinality(address_monitor) = 3

---------------------------------------------------------------------------
(* Extended transport protocol frames on the bus: the stack of Spec is     *)
(* handed, one frame per process call, ETP.CM and ETP.DT frames addressed  *)
(* to all, to the address of a CF and to a foreign address                 *)

EtpFrames ==
    {FrameCan(Frame(Header(pgn, 7, RemoteAddress, da), <<20, 0, 8, 0, 0, 0, 220, 0>>)) :
         pgn \in {PGN_ETP_CM, PGN_ETP_DT},
         da \in {ADDRESS_GLOBAL, PreferredAddress, OtherAddress}}

NextEtp ==
    \/ \E a \in LocalAddresses, n \in LocalNames : Register(a, n)
    \/ \E d \in TickSteps : Tick(d)
    \/ \E f \in EtpFrames \cup WellFormed : Process(<<f>>)
    \/ Process(<<>>)

SpecEtp == Init /\ [][NextEtp]_vars

\* the call takes in one ETP frame that passes the destination filter
TakesInEtp(frames) ==
    /\ Len(frames) = 1
    /\ HeaderFromId(frames[1].id).pgn \in {PGN_ETP_CM, PGN_ETP_DT}
    /\ CheckDestination(Self, HeaderFromId(frames[1].id).destination_address)

\* C40: a process call that takes in an ETP.CM or ETP.DT frame which passes
\* the destination filter ends as the same call without the frame ends: it
\* does not panic on the frame, the TP sessions, the queues, the CFs and
\* the monitor are as that call leaves them and nothing else is transmitted
C40_EtpDropped ==
    [][(call'.op = "process" /\ TakesInEtp(can_in')) =>
           \E overflow_checks \in BOOLEAN :
               LET s == StackProcess(Self, <<>>, now, overflow_checks)
               IN  /\ fault' = s.fault
                   /\ cf' = s.cf
                   /\ address_monitor' = s.address_monitor
                   /\ received_frames' = s.received_frames
                   /\ transport' = s.transport
                   /\ can_out' = s.can_out]_vars

\* a stack with a CF has been handed an ETP.CM frame addressed to all
C40_Witness ==
    /\ call.op = "process"
    /\ Len(cf) = 1
    /\ Len(can_in) = 1
    /\ HeaderFromId(can_in[1].id).pgn = PGN_ETP_CM
    /\ HeaderFromId(can_in[1].id).destination_address = ADDRESS_GLOBAL

===========================================================================
